---- MODULE Spec2Model ----
(***************************************************************************)
(* A model of the command-mapping and command-execution core of the        *)
(* natural-language command generator: CommandExecutor (src/executor.py)   *)
(* and CommandMapper (src/command_mapper.py).                              *)
(*                                                                         *)
(* Text is modelled by TLA+ strings, character by character: Len, \o and   *)
(* SubSeq act on strings, and the character at position i of s is the      *)
(* one-character string SubSeq(s, i, i).  Python's None is the empty       *)
(* tuple and an optional value v is the one-element tuple <<v>>.           *)
(***************************************************************************)
EXTENDS Integers, Sequences, FiniteSets, TLC

VARIABLES
    history,      \* CommandExecutor.history: the in-memory list of entries
    history_file, \* the file at CommandExecutor.history_file
    result,       \* what the last execute call returned (None before any call)
    lastExec,     \* the arguments and environment of the last execute call
    invoked,      \* whether the last execute call reached subprocess.run
    recorded,     \* every entry _save_to_history ever appended, in order
    system,       \* CommandMapper.system: platform.system().lower()
    use_ai,       \* CommandMapper.use_ai
    mapped,       \* what the last mapper call returned (None before any call)
    lastMap,      \* the arguments and environment of the last mapper call
    peer_history, \* the in-memory history of a second CommandExecutor on the same file
    peer_recorded, \* every entry the second executor's _save_to_history appended
    statistics,   \* what the last get_statistics call returned (None before any call)
    session       \* the caller's submission in progress: where it stands and what it did

vars == <<history, history_file, result, lastExec, invoked, recorded,
          system, use_ai, mapped, lastMap, peer_history, peer_recorded,
          statistics, session>>

execVars == <<history, history_file, result, lastExec, invoked, recorded>>
mapVars == <<mapped, lastMap>>
configVars == <<system, use_ai>>
peerVars == <<peer_history, peer_recorded>>
callerVars == <<statistics, session>>

None == <<>>
Some(v) == <<v>>

\* ------------------------------------------------------------------ bounds

\* Recorded runs explored with the full variety of commands and outcomes.
MaxRuns == 2
\* Recorded runs explored by the history-cap specification (one command).
MaxCapRuns == 105
\* Recorded runs of two executors sharing one history file, taken together.
MaxRaceRuns == 3
\* Leading runs of each hundred of the statistics specification that may end
\* with a non-zero exit code; the other runs end with exit code 0.
MaxMixedRuns == 1
\* Recorded runs explored by the caller specification.
MaxCallerRuns == 1
\* Leading runs of each hundred of the restart specification whose history
\* write may fail
MaxLostWrites == 1

\* -------------------------------------------------------------- str methods

Char(s, i) == SubSeq(s, i, i)

UpperCase == "ABCDEFGHIJKLMNOPQRSTUVWXYZ"
LowerCase == "abcdefghijklmnopqrstuvwxyz"
DigitChars == {"0", "1", "2", "3", "4", "5", "6", "7", "8", "9"}
\* str.isspace for the characters the model uses
Whitespace == {" ", "\t", "\n", "\r", "\f"}

LowerMap ==
    [c \in { Char(UpperCase, i) : i \in 1..26 } |->
        Char(LowerCase, CHOOSE i \in 1..26 : Char(UpperCase, i) = c)]

LowerChar(c) == IF c \in DOMAIN LowerMap THEN LowerMap[c] ELSE c

\* str.lower(), half by half
RECURSIVE lower(_)
lower(s) ==
    IF Len(s) <= 1
    THEN LowerChar(s)
    ELSE lower(SubSeq(s, 1, Len(s) \div 2)) \o lower(SubSeq(s, Len(s) \div 2 + 1, Len(s)))

RECURSIVE lstrip(_)
lstrip(s) ==
    IF s # "" /\ Char(s, 1) \in Whitespace THEN lstrip(SubSeq(s, 2, Len(s))) ELSE s

RECURSIVE rstrip(_)
rstrip(s) ==
    IF s # "" /\ Char(s, Len(s)) \in Whitespace
    THEN rstrip(SubSeq(s, 1, Len(s) - 1))
    ELSE s

strip(s) == rstrip(lstrip(s))

\* Python's `sub in s`
Contains(s, sub) ==
    \E i \in 1..(Len(s) - Len(sub) + 1) : SubSeq(s, i, i + Len(sub) - 1) = sub

\* Python truthiness of a str or None held as an optional
Truthy(opt) == opt # None /\ opt[1] # ""

\* ---------------------------------------------------------------- executor

\* The list without its entry "sudo shutdown"
dangerous_commands_without_shutdown ==
    << "rm -rf", "sudo rm", "sudo reboot", "sudo halt",
       "sudo poweroff", "sudo kill", "sudo dd", "sudo mkfs", "sudo fdisk",
       "sudo parted", "sudo chmod 777", "sudo chown root", "sudo passwd",
       "sudo useradd", "sudo userdel", "sudo groupadd", "sudo groupdel" >>

dangerous_commands ==
    << "rm -rf", "sudo rm", "sudo shutdown", "sudo reboot", "sudo halt",
       "sudo poweroff", "sudo kill", "sudo dd", "sudo mkfs", "sudo fdisk",
       "sudo parted", "sudo chmod 777", "sudo chown root", "sudo passwd",
       "sudo useradd", "sudo userdel", "sudo groupadd", "sudo groupdel" >>

HistoryCap == 100
TimeoutSeconds == 30

BlockedMessage ==
    "This command requires additional confirmation due to safety concerns."
TimeoutMessage == "Command execution timed out after 30 seconds."
ErrorPrefix == "Execution error: "

\* ExecutionResult(success, output=None, error=None, exit_code=0, execution_time=0.0)
ExecutionResult(success, output, error, exit_code, execution_time) ==
    [success |-> success, output |-> output, error |-> error,
     exit_code |-> exit_code, execution_time |-> execution_time]

\* The three results execute builds without a completed process.
BlockedResult == ExecutionResult(FALSE, None, Some(BlockedMessage), 0, 0)
TimeoutResultAsGenericError ==
    ExecutionResult(FALSE, None, Some(ErrorPrefix \o "Command timed out"), 0, 0)
TimeoutResult == ExecutionResult(FALSE, None, Some(TimeoutMessage), 0, 0)
ErrorResult(text) == ExecutionResult(FALSE, None, Some(ErrorPrefix \o text), 0, 0)

_is_dangerous_command_case_sensitive(command) ==
    \E k \in 1..Len(dangerous_commands) : Contains(command, dangerous_commands[k])

_is_dangerous_command(command) ==
    LET command_lower == lower(command)
    IN  \E k \in 1..Len(dangerous_commands) :
            Contains(command_lower, lower(dangerous_commands[k]))

\* The file after `open(history_file, 'w')` and json.dump: written in full,
\* left as it was when open fails, or cut short when the dump fails midway.
FileOk(entries) == [state |-> "ok", entries |-> entries]
FileMissing == [state |-> "missing", entries |-> <<>>]
FileCorrupt == [state |-> "corrupt", entries |-> <<>>]

WriteFileAppendsLastEntry(file, entries, write) ==
    CASE write = "ok" -> FileOk(file.entries \o <<entries[Len(entries)]>>)
      [] write = "open_fails" -> file
      [] write = "dump_fails" -> FileCorrupt

WriteFile(file, entries, write) ==
    CASE write = "ok" -> FileOk(entries)
      [] write = "open_fails" -> file
      [] write = "dump_fails" -> FileCorrupt

\* _load_history: the entries of an existing, readable file, else []
_load_history(file) == IF file.state = "ok" THEN file.entries ELSE <<>>

\* datetime.datetime.now(): a clock that has moved on at every recorded entry
Now == Len(recorded) + Len(peer_recorded) + 1

HistoryEntry(timestamp, command, original_input, res) ==
    [timestamp |-> timestamp,
     original_input |-> original_input,
     command |-> command,
     success |-> res.success,
     exit_code |-> res.exit_code,
     execution_time |-> res.execution_time,
     output_length |-> IF Truthy(res.output) THEN Len(res.output[1]) ELSE 0,
     error_length |-> IF Truthy(res.error) THEN Len(res.error[1]) ELSE 0]

\* history[-100:]
LastEntries(h, n) == IF Len(h) > n THEN SubSeq(h, Len(h) - n + 1, Len(h)) ELSE h

TruncateHistoryKeepsOldest(h) ==
    IF Len(h) > HistoryCap THEN SubSeq(h, 1, HistoryCap) ELSE h

TruncateHistory(h) == IF Len(h) > HistoryCap THEN LastEntries(h, HistoryCap) ELSE h

_save_to_history_loses_entry_on_write_failure(command, original_input, res, write) ==
    LET history_entry ==
            HistoryEntry(Now, command, original_input, res)
        appended == Append(history, history_entry)
    IN  IF write = "ok"
        THEN /\ history' = TruncateHistory(appended)
             /\ history_file' = WriteFile(history_file, history', write)
             /\ recorded' = Append(recorded, history_entry)
        ELSE UNCHANGED <<history, history_file, recorded>>

_save_to_history(command, original_input, res, write) ==
    LET history_entry ==
            HistoryEntry(Now, command, original_input, res)
        appended == Append(history, history_entry)
    IN  /\ history' = TruncateHistory(appended)
        /\ history_file' = WriteFile(history_file, history', write)
        /\ recorded' = Append(recorded, history_entry)

\* What subprocess.run did: the process completed, the 30 s timeout expired,
\* or the call raised another exception (proc.text is str(e)).
Completed(returncode, stdout, stderr, elapsed) ==
    [kind |-> "completed", returncode |-> returncode, stdout |-> stdout,
     stderr |-> stderr, elapsed |-> elapsed]
TimedOut == [kind |-> "timeout"]
Raised(text) == [kind |-> "exception", text |-> text]

CompletedResultIgnoresExitCode(proc) ==
    ExecutionResult(TRUE,
                    IF proc.stdout # "" THEN Some(strip(proc.stdout)) ELSE None,
                    IF proc.stderr # "" THEN Some(strip(proc.stderr)) ELSE None,
                    0,
                    proc.elapsed)

CompletedResult(proc) ==
    ExecutionResult(proc.returncode = 0,
                    IF proc.stdout # "" THEN Some(strip(proc.stdout)) ELSE None,
                    IF proc.stderr # "" THEN Some(strip(proc.stderr)) ELSE None,
                    proc.returncode,
                    proc.elapsed)

\* ---------------------------------------------------------- inputs (executor)

\* (command, original_input) pairs handed to execute
ExecCalls ==
    { <<"ls -la", "list files">>,
      <<"sleep 60", "wait a minute">>,
      <<"sudo shutdown -h now", "shutdown computer">>,
      <<"SUDO RM -RF /tmp/x", "delete tmp">> }

ProcOutcomes ==
    { Completed(0, "total 0\n", "", 1),
      Completed(1, "", "ls: no such file\n", 2),
      Completed(0, "\n", "", 1),
      TimedOut,
      Raised("[Errno 12] Cannot allocate memory") }

WriteOutcomes == {"ok", "open_fails", "dump_fails"}

CapCalls == { <<"ls -la", "list files">>, <<"Sudo Reboot", "restart computer">> }
CapOutcomes == { Completed(0, "total 0\n", "", 1), TimedOut }

\* The commands the callers of the caller specification hand to execute: what
\* the mapper returns for their inputs on some platform or from the backend.
CallerCommands ==
    { "google-chrome", "start chrome", "open -a \"Google Chrome\"",
      "sudo shutdown -h now", "sudo shutdown -r now",
      "shutdown /s /t 0", "shutdown /r /t 0",
      "xdg-open https://www.google.com/search?q=fdisk",
      "open https://www.google.com/search?q=fdisk",
      "start https://www.google.com/search?q=fdisk",
      "ls -la" }

ExecCommands == { c[1] : c \in ExecCalls \cup CapCalls } \cup CallerCommands

\* The two pure steps of execute, evaluated once per input of the model.
DangerousTable == [c \in ExecCommands |-> _is_dangerous_command(c)]
CompletedTable ==
    [p \in { q \in ProcOutcomes \cup CapOutcomes : q.kind = "completed" }
        |-> CompletedResult(p)]

\* ------------------------------------------------------------------ execute

execute(command, original_input, proc, write) ==
    /\ lastExec' = Some([command |-> command, original_input |-> original_input,
                         proc |-> proc, write |-> write])
    /\ IF DangerousTable[command]
       THEN /\ result' = Some(BlockedResult)
            /\ invoked' = FALSE
            /\ UNCHANGED <<history, history_file, recorded>>
       ELSE /\ invoked' = TRUE
            /\ CASE proc.kind = "completed" ->
                      /\ result' = Some(CompletedTable[proc])
                      /\ _save_to_history(command, original_input,
                                          CompletedTable[proc], write)
                 [] proc.kind = "timeout" ->
                      /\ result' = Some(TimeoutResult)
                      /\ UNCHANGED <<history, history_file, recorded>>
                 [] proc.kind = "exception" ->
                      /\ result' = Some(ErrorResult(proc.text))
                      /\ UNCHANGED <<history, history_file, recorded>>
    /\ UNCHANGED <<configVars, mapVars, peerVars>>

\* ------------------------------------------------- a second executor

\* _save_to_history and execute of a second CommandExecutor constructed on
\* the same history_file: the same code, on that executor's own history.
peer_save_to_history_rereads_file(command, original_input, res, write) ==
    LET history_entry == HistoryEntry(Now, command, original_input, res)
    IN  /\ peer_history' =
               TruncateHistory(Append(_load_history(history_file), history_entry))
        /\ history_file' = WriteFile(history_file, peer_history', write)
        /\ peer_recorded' = Append(peer_recorded, history_entry)

peer_save_to_history(command, original_input, res, write) ==
    LET history_entry == HistoryEntry(Now, command, original_input, res)
    IN  /\ peer_history' = TruncateHistory(Append(peer_history, history_entry))
        /\ history_file' = WriteFile(history_file, peer_history', write)
        /\ peer_recorded' = Append(peer_recorded, history_entry)

peer_execute(command, original_input, proc, write) ==
    /\ lastExec' = Some([command |-> command, original_input |-> original_input,
                         proc |-> proc, write |-> write])
    /\ IF DangerousTable[command]
       THEN /\ result' = Some(BlockedResult)
            /\ invoked' = FALSE
            /\ UNCHANGED <<peer_history, history_file, peer_recorded>>
       ELSE /\ invoked' = TRUE
            /\ CASE proc.kind = "completed" ->
                      /\ result' = Some(CompletedTable[proc])
                      /\ peer_save_to_history(command, original_input,
                                              CompletedTable[proc], write)
                 [] proc.kind = "timeout" ->
                      /\ result' = Some(TimeoutResult)
                      /\ UNCHANGED <<peer_history, history_file, peer_recorded>>
                 [] proc.kind = "exception" ->
                      /\ result' = Some(ErrorResult(proc.text))
                      /\ UNCHANGED <<peer_history, history_file, peer_recorded>>
    /\ UNCHANGED <<history, recorded, configVars, mapVars>>

\* ----------------------------------------- statistics, clearing, construction

\* sum(1 for entry in self.history if entry["success"])
SuccessfulEntries(h) == Cardinality({ i \in 1..Len(h) : h[i].success })

\* sum(entry["execution_time"] for entry in self.history)
RECURSIVE SumExecutionTime(_, _)
SumExecutionTime(h, i) ==
    IF i > Len(h) THEN 0 ELSE h[i].execution_time + SumExecutionTime(h, i + 1)

\* The record get_statistics returns; a float quotient n / d is kept as the
\* pair <<n, d>> of its operands.
Statistics(total, successful, time) ==
    [total_commands |-> total,
     successful_commands |-> successful,
     failed_commands |-> total - successful,
     success_rate |-> <<successful * 100, total>>,
     average_execution_time |-> <<time, total>>]

\* The return of get_statistics for `if not self.history`
NoStatistics ==
    [total_commands |-> 0, successful_commands |-> 0, failed_commands |-> 0,
     success_rate |-> <<0, 1>>, average_execution_time |-> <<0, 1>>]

get_statistics_counts_every_entry_successful(h) ==
    IF h = <<>>
    THEN NoStatistics
    ELSE Statistics(Len(h), Len(h), SumExecutionTime(h, 1))

get_statistics(h) ==
    IF h = <<>>
    THEN NoStatistics
    ELSE Statistics(Len(h), SuccessfulEntries(h), SumExecutionTime(h, 1))

clear_history_keeps_file ==
    /\ history' = <<>>
    /\ UNCHANGED <<history_file, result, lastExec, invoked, recorded>>

\* self.history = [], then the file is unlinked when it exists
clear_history ==
    /\ history' = <<>>
    /\ history_file' = FileMissing
    /\ UNCHANGED <<result, lastExec, invoked, recorded>>

\* CommandExecutor.__init__ of a new process on the same history_file: the
\* earlier executor is gone and the new one starts from what the file holds.
\* The new executor has had no call of execute yet.
__init__without_load ==
    /\ history' = <<>>
    /\ result' = None
    /\ lastExec' = None
    /\ invoked' = FALSE
    /\ UNCHANGED <<history_file, recorded>>

__init__ ==
    /\ history' = _load_history(history_file)
    /\ result' = None
    /\ lastExec' = None
    /\ invoked' = FALSE
    /\ UNCHANGED <<history_file, recorded>>

\* ------------------------------------------------------------------ re module

\* A pattern is a sequence of items, as the regular expression parses:
\*   Lit(s)              the characters of s
\*   Rep(cls, min, max)  min to max characters of a class, greedy
\*   Group(n, alts)      capturing group n, a choice between item sequences
\*   Opt(item)           item?, greedy
\* GroupEnd is the matcher's own item: it closes group n, opened at `start`.
Unbounded == 1000000
MaxGroups == 4

Lit(s) == [t |-> "lit", s |-> s]
Rep(cls, min, max) == [t |-> "rep", cls |-> cls, min |-> min, max |-> max]
Group(n, alts) == [t |-> "group", n |-> n, alts |-> alts]
Opt(item) == [t |-> "opt", item |-> item]
GroupEnd(n, start) == [t |-> "end", n |-> n, start |-> start]

Letters ==
    { Char(LowerCase, i) : i \in 1..26 } \cup { Char(UpperCase, i) : i \in 1..26 }

InClass(c, cls) ==
    CASE cls = "any" -> c # "\n"
      [] cls = "digit" -> c \in DigitChars
      [] cls = "space" -> c \in Whitespace
      [] cls = "nonspace" -> c \notin Whitespace
      [] cls = "letter_or_space" -> c \in Letters \/ c \in Whitespace
      [] cls = "quote" -> c \in {"\"", "'"}

\* re.IGNORECASE: a literal matches in either letter case
LitMatchesAt(s, lit, pos) ==
    /\ pos + Len(lit) - 1 <= Len(s)
    /\ \A j \in 1..Len(lit) : LowerChar(Char(s, pos + j - 1)) = LowerChar(Char(lit, j))

\* How many characters of class cls follow from pos, at most max
RECURSIVE RunLength(_, _, _, _)
RunLength(s, cls, pos, max) ==
    IF max = 0 \/ pos > Len(s) \/ ~InClass(Char(s, pos), cls)
    THEN 0
    ELSE 1 + RunLength(s, cls, pos + 1, max - 1)

NoGroups == [n \in 1..MaxGroups |-> None]

\* The backtracking matcher: the first way, in the engine's order of trying
\* (greedy repeats longest first, alternatives left to right), in which
\* `items` match s from pos; None when there is none.
RECURSIVE MatchHere(_, _, _, _)
RECURSIVE TryCounts(_, _, _, _, _, _)
RECURSIVE TryAlts(_, _, _, _, _, _)

TryCounts(s, rest, pos, groups, k, min) ==
    IF k < min
    THEN None
    ELSE LET r == MatchHere(s, rest, pos + k, groups)
         IN  IF r # None THEN r ELSE TryCounts(s, rest, pos, groups, k - 1, min)

TryAlts(s, group, rest, pos, groups, a) ==
    IF a > Len(group.alts)
    THEN None
    ELSE LET r == MatchHere(s, group.alts[a] \o <<GroupEnd(group.n, pos)>> \o rest,
                            pos, groups)
         IN  IF r # None THEN r ELSE TryAlts(s, group, rest, pos, groups, a + 1)

MatchHere(s, items, pos, groups) ==
    IF Len(items) = 0
    THEN Some([end |-> pos, groups |-> groups])
    ELSE LET item == Head(items)
             rest == Tail(items)
         IN  CASE item.t = "lit" ->
                    IF LitMatchesAt(s, item.s, pos)
                    THEN MatchHere(s, rest, pos + Len(item.s), groups)
                    ELSE None
               [] item.t = "rep" ->
                    TryCounts(s, rest, pos, groups,
                              RunLength(s, item.cls, pos, item.max), item.min)
               [] item.t = "group" -> TryAlts(s, item, rest, pos, groups, 1)
               [] item.t = "opt" ->
                    LET r == MatchHere(s, <<item.item>> \o rest, pos, groups)
                    IN  IF r # None THEN r ELSE MatchHere(s, rest, pos, groups)
               [] item.t = "end" ->
                    MatchHere(s, rest, pos,
                              [groups EXCEPT ![item.n] =
                                  Some(SubSeq(s, item.start, pos - 1))])

\* re.search(pattern, s, re.IGNORECASE): the match at the leftmost start
RECURSIVE SearchFrom(_, _, _)
SearchFrom(pattern, s, start) ==
    IF start > Len(s) + 1
    THEN None
    ELSE LET r == MatchHere(s, pattern, start, NoGroups)
         IN  IF r # None THEN r ELSE SearchFrom(pattern, s, start + 1)

re_search(pattern, s) == SearchFrom(pattern, s, 1)

\* ------------------------------------------------------ the fallback table

\* What a rule holds for a platform: a literal command, or a lambda over the
\* match that formats captured groups into a command.
Literal(s) == [k |-> "literal", s |-> s]
Template(parts) == [k |-> "template", parts |-> parts]
Text(s) == [k |-> "text", s |-> s]
GroupRef(n) == [k |-> "group", n |-> n, by |-> " "]
GroupReplace(n, by) == [k |-> "group", n |-> n, by |-> by]

fallback_patterns ==
    <<
    \* rule 1 (command_mapper.py line 306)
      [pattern |-> <<Lit("list"), Rep("any", 0, Unbounded), Lit("port"), Rep("any", 0, Unbounded), Group(1,
                    <<<<Rep("digit", 4, 5)>>>>)>>,
       mapping |-> [all |-> Template(<<Text("lsof -i tcp:"), GroupRef(1)>>)]],
    \* rule 2 (command_mapper.py line 309)
      [pattern |-> <<Lit("kill"), Rep("any", 0, Unbounded), Lit("port"), Rep("any", 0, Unbounded), Group(1,
                    <<<<Rep("digit", 4, 5)>>>>)>>,
       mapping |-> [all |-> Template(<<Text("kill -9 $(lsof -t -i tcp:"), GroupRef(1), Text(")")>>)]],
    \* rule 3 (command_mapper.py line 312)
      [pattern |-> <<Lit("find"), Rep("any", 0, Unbounded), Lit("port"), Rep("any", 0, Unbounded), Group(1,
                    <<<<Rep("digit", 4, 5)>>>>)>>,
       mapping |-> [all |-> Template(<<Text("lsof -i tcp:"), GroupRef(1)>>)]],
    \* rule 4 (command_mapper.py line 317)
      [pattern |-> <<Lit("copy"), Rep("space", 1, Unbounded), Lit("file"), Rep("space", 1, Unbounded), Group(1,
                    <<<<Rep("nonspace", 1, Unbounded)>>>>), Rep("space", 1, Unbounded), Lit("to"),
                    Rep("space", 1, Unbounded), Group(2, <<<<Rep("nonspace", 1, Unbounded)>>>>)>>,
       mapping |-> [darwin |-> Template(<<Text("cp "), GroupRef(1), Text(" "), GroupRef(2)>>),
           windows |-> Template(<<Text("copy "), GroupRef(1), Text(" "), GroupRef(2)>>),
           linux |-> Template(<<Text("cp "), GroupRef(1), Text(" "), GroupRef(2)>>)]],
    \* rule 5 (command_mapper.py line 322)
      [pattern |-> <<Lit("move"), Rep("space", 1, Unbounded), Lit("file"), Rep("space", 1, Unbounded), Group(1,
                    <<<<Rep("nonspace", 1, Unbounded)>>>>), Rep("space", 1, Unbounded), Lit("to"),
                    Rep("space", 1, Unbounded), Group(2, <<<<Rep("nonspace", 1, Unbounded)>>>>)>>,
       mapping |-> [darwin |-> Template(<<Text("mv "), GroupRef(1), Text(" "), GroupRef(2)>>),
           windows |-> Template(<<Text("move "), GroupRef(1), Text(" "), GroupRef(2)>>),
           linux |-> Template(<<Text("mv "), GroupRef(1), Text(" "), GroupRef(2)>>)]],
    \* rule 6 (command_mapper.py line 327)
      [pattern |-> <<Lit("rename"), Rep("space", 1, Unbounded), Group(1, <<<<Rep("nonspace", 1, Unbounded)>>>>),
                    Rep("space", 1, Unbounded), Lit("to"), Rep("space", 1, Unbounded), Group(2,
                    <<<<Rep("nonspace", 1, Unbounded)>>>>)>>,
       mapping |-> [darwin |-> Template(<<Text("mv "), GroupRef(1), Text(" "), GroupRef(2)>>),
           windows |-> Template(<<Text("rename "), GroupRef(1), Text(" "), GroupRef(2)>>),
           linux |-> Template(<<Text("mv "), GroupRef(1), Text(" "), GroupRef(2)>>)]],
    \* rule 7 (command_mapper.py line 332)
      [pattern |-> <<Group(1, <<<<Lit("create")>>, <<Lit("make")>>>>), Rep("space", 1, Unbounded), Opt(Group(2,
                    <<<<Lit("a"), Rep("space", 1, Unbounded)>>>>)), Opt(Group(3, <<<<Lit("new"),
                    Rep("space", 1, Unbounded)>>>>)), Lit("folder"), Rep("space", 1, Unbounded),
                    Lit("called"), Rep("space", 1, Unbounded), Group(4, <<<<Rep("nonspace", 1,
                    Unbounded)>>>>)>>,
       mapping |-> [darwin |-> Template(<<Text("mkdir "), GroupRef(4)>>),
           windows |-> Template(<<Text("mkdir "), GroupRef(4)>>),
           linux |-> Template(<<Text("mkdir "), GroupRef(4)>>)]],
    \* rule 8 (command_mapper.py line 337)
      [pattern |-> <<Group(1, <<<<Lit("remove")>>, <<Lit("delete")>>>>), Rep("space", 1, Unbounded), Lit("folder"),
                    Rep("space", 1, Unbounded), Group(2, <<<<Rep("nonspace", 1, Unbounded)>>>>)>>,
       mapping |-> [darwin |-> Template(<<Text("rmdir "), GroupRef(2)>>),
           windows |-> Template(<<Text("rmdir "), GroupRef(2)>>),
           linux |-> Template(<<Text("rmdir "), GroupRef(2)>>)]],
    \* rule 9 (command_mapper.py line 344)
      [pattern |-> <<Lit("open"), Rep("any", 0, Unbounded), Lit("chrome")>>,
       mapping |-> [darwin |-> Literal("open -a \"Google Chrome\""),
           windows |-> Literal("start chrome"),
           linux |-> Literal("google-chrome")]],
    \* rule 10 (command_mapper.py line 349)
      [pattern |-> <<Lit("open"), Rep("any", 0, Unbounded), Lit("firefox")>>,
       mapping |-> [darwin |-> Literal("open -a \"Firefox\""),
           windows |-> Literal("start firefox"),
           linux |-> Literal("firefox")]],
    \* rule 11 (command_mapper.py line 354)
      [pattern |-> <<Lit("open"), Rep("any", 0, Unbounded), Lit("vscode")>>,
       mapping |-> [darwin |-> Literal("open -a \"Visual Studio Code\""),
           windows |-> Literal("code"),
           linux |-> Literal("code")]],
    \* rule 12 (command_mapper.py line 359)
      [pattern |-> <<Lit("open"), Rep("any", 0, Unbounded), Lit("safari")>>,
       mapping |-> [darwin |-> Literal("open -a \"Safari\""),
           windows |-> Literal("start safari"),
           linux |-> Literal("safari")]],
    \* rule 13 (command_mapper.py line 364)
      [pattern |-> <<Lit("start"), Rep("space", 1, Unbounded), Lit("notepad")>>,
       mapping |-> [darwin |-> Literal("open -a TextEdit"),
           windows |-> Literal("notepad"),
           linux |-> Literal("gedit")]],
    \* rule 14 (command_mapper.py line 369)
      [pattern |-> <<Lit("open"), Rep("space", 1, Unbounded), Lit("calculator")>>,
       mapping |-> [darwin |-> Literal("open -a Calculator"),
           windows |-> Literal("calc"),
           linux |-> Literal("gnome-calculator")]],
    \* rule 15 (command_mapper.py line 376)
      [pattern |-> <<Group(1, <<<<Lit("open")>>, <<Lit("launch")>>, <<Lit("go"), Rep("space", 1, Unbounded),
                    Lit("to")>>>>), Rep("space", 1, Unbounded), Lit("youtube")>>,
       mapping |-> [darwin |-> Literal("open https://www.youtube.com"),
           windows |-> Literal("start https://www.youtube.com"),
           linux |-> Literal("xdg-open https://www.youtube.com")]],
    \* rule 16 (command_mapper.py line 381)
      [pattern |-> <<Lit("search"), Rep("space", 1, Unbounded), Lit("youtube"), Rep("space", 1, Unbounded), Lit("for"),
                    Rep("space", 1, Unbounded), Group(1, <<<<Rep("any", 1, Unbounded)>>>>)>>,
       mapping |-> [darwin |-> Template(<<Text("open https://www.youtube.com/results?search_query="), GroupReplace(1, "+")>>),
           windows |-> Template(<<Text("start https://www.youtube.com/results?search_query="), GroupReplace(1, "+")>>),
           linux |-> Template(<<Text("xdg-open https://www.youtube.com/results?search_query="), GroupReplace(1, "+")>>)]],
    \* rule 17 (command_mapper.py line 386)
      [pattern |-> <<Group(1, <<<<Lit("open")>>, <<Lit("launch")>>, <<Lit("check")>>>>), Rep("space", 1, Unbounded),
                    Lit("gmail")>>,
       mapping |-> [darwin |-> Literal("open https://mail.google.com"),
           windows |-> Literal("start https://mail.google.com"),
           linux |-> Literal("xdg-open https://mail.google.com")]],
    \* rule 18 (command_mapper.py line 391)
      [pattern |-> <<Group(1, <<<<Lit("open")>>, <<Lit("launch")>>, <<Lit("go"), Rep("space", 1, Unbounded),
                    Lit("to")>>>>), Rep("space", 1, Unbounded), Lit("facebook")>>,
       mapping |-> [darwin |-> Literal("open https://www.facebook.com"),
           windows |-> Literal("start https://www.facebook.com"),
           linux |-> Literal("xdg-open https://www.facebook.com")]],
    \* rule 19 (command_mapper.py line 396)
      [pattern |-> <<Group(1, <<<<Lit("open")>>, <<Lit("launch")>>, <<Lit("go"), Rep("space", 1, Unbounded),
                    Lit("to")>>>>), Rep("space", 1, Unbounded), Lit("instagram")>>,
       mapping |-> [darwin |-> Literal("open https://www.instagram.com"),
           windows |-> Literal("start https://www.instagram.com"),
           linux |-> Literal("xdg-open https://www.instagram.com")]],
    \* rule 20 (command_mapper.py line 401)
      [pattern |-> <<Group(1, <<<<Lit("open")>>, <<Lit("launch")>>, <<Lit("go"), Rep("space", 1, Unbounded),
                    Lit("to")>>>>), Rep("space", 1, Unbounded), Lit("twitter")>>,
       mapping |-> [darwin |-> Literal("open https://twitter.com"),
           windows |-> Literal("start https://twitter.com"),
           linux |-> Literal("xdg-open https://twitter.com")]],
    \* rule 21 (command_mapper.py line 406)
      [pattern |-> <<Group(1, <<<<Lit("tweet")>>, <<Lit("send"), Rep("space", 1, Unbounded), Lit("a"), Rep("space", 1,
                    Unbounded), Lit("tweet")>>>>), Rep("space", 1, Unbounded), Lit("'"), Group(2,
                    <<<<Rep("any", 1, Unbounded)>>>>), Lit("'")>>,
       mapping |-> [darwin |-> Template(<<Text("open https://twitter.com/intent/tweet?text="), GroupReplace(2, "+")>>),
           windows |-> Template(<<Text("start https://twitter.com/intent/tweet?text="), GroupReplace(2, "+")>>),
           linux |-> Template(<<Text("xdg-open https://twitter.com/intent/tweet?text="), GroupReplace(2, "+")>>)]],
    \* rule 22 (command_mapper.py line 411)
      [pattern |-> <<Group(1, <<<<Lit("open")>>, <<Lit("launch")>>, <<Lit("play")>>>>), Rep("space", 1, Unbounded),
                    Lit("spotify")>>,
       mapping |-> [darwin |-> Literal("open https://open.spotify.com"),
           windows |-> Literal("start https://open.spotify.com"),
           linux |-> Literal("xdg-open https://open.spotify.com")]],
    \* rule 23 (command_mapper.py line 416)
      [pattern |-> <<Lit("search"), Rep("space", 1, Unbounded), Lit("spotify"), Rep("space", 1, Unbounded), Lit("for"),
                    Rep("space", 1, Unbounded), Group(1, <<<<Rep("any", 1, Unbounded)>>>>)>>,
       mapping |-> [darwin |-> Template(<<Text("open https://open.spotify.com/search/"), GroupReplace(1, "%20")>>),
           windows |-> Template(<<Text("start https://open.spotify.com/search/"), GroupReplace(1, "%20")>>),
           linux |-> Template(<<Text("xdg-open https://open.spotify.com/search/"), GroupReplace(1, "%20")>>)]],
    \* rule 24 (command_mapper.py line 421)
      [pattern |-> <<Group(1, <<<<Lit("open")>>, <<Lit("launch")>>, <<Lit("go"), Rep("space", 1, Unbounded),
                    Lit("to")>>>>), Rep("space", 1, Unbounded), Lit("reddit")>>,
       mapping |-> [darwin |-> Literal("open https://www.reddit.com"),
           windows |-> Literal("start https://www.reddit.com"),
           linux |-> Literal("xdg-open https://www.reddit.com")]],
    \* rule 25 (command_mapper.py line 426)
      [pattern |-> <<Lit("search"), Rep("space", 1, Unbounded), Lit("reddit"), Rep("space", 1, Unbounded), Lit("for"),
                    Rep("space", 1, Unbounded), Group(1, <<<<Rep("any", 1, Unbounded)>>>>)>>,
       mapping |-> [darwin |-> Template(<<Text("open https://www.reddit.com/search/?q="), GroupReplace(1, "+")>>),
           windows |-> Template(<<Text("start https://www.reddit.com/search/?q="), GroupReplace(1, "+")>>),
           linux |-> Template(<<Text("xdg-open https://www.reddit.com/search/?q="), GroupReplace(1, "+")>>)]],
    \* rule 26 (command_mapper.py line 431)
      [pattern |-> <<Group(1, <<<<Lit("open")>>, <<Lit("launch")>>>>), Rep("space", 1, Unbounded), Lit("whatsapp"),
                    Rep("space", 1, Unbounded), Lit("web")>>,
       mapping |-> [darwin |-> Literal("open https://web.whatsapp.com"),
           windows |-> Literal("start https://web.whatsapp.com"),
           linux |-> Literal("xdg-open https://web.whatsapp.com")]],
    \* rule 27 (command_mapper.py line 438)
      [pattern |-> <<Lit("search"), Rep("any", 0, Unbounded), Lit("weather"), Rep("any", 0, Unbounded), Lit("in"),
                    Rep("space", 1, Unbounded), Group(1, <<<<Rep("letter_or_space", 1,
                    Unbounded)>>>>)>>,
       mapping |-> [darwin |-> Template(<<Text("open https://www.google.com/search?q=weather+in+"), GroupReplace(1, "+")>>),
           windows |-> Template(<<Text("start https://www.google.com/search?q=weather+in+"), GroupReplace(1, "+")>>),
           linux |-> Template(<<Text("xdg-open https://www.google.com/search?q=weather+in+"), GroupReplace(1, "+")>>)]],
    \* rule 28 (command_mapper.py line 443)
      [pattern |-> <<Lit("search"), Rep("any", 0, Unbounded), Lit("for"), Rep("space", 1, Unbounded), Group(1,
                    <<<<Rep("letter_or_space", 1, Unbounded)>>>>)>>,
       mapping |-> [darwin |-> Template(<<Text("open https://www.google.com/search?q="), GroupReplace(1, "+")>>),
           windows |-> Template(<<Text("start https://www.google.com/search?q="), GroupReplace(1, "+")>>),
           linux |-> Template(<<Text("xdg-open https://www.google.com/search?q="), GroupReplace(1, "+")>>)]],
    \* rule 29 (command_mapper.py line 448)
      [pattern |-> <<Lit("google"), Rep("space", 1, Unbounded), Group(1, <<<<Rep("letter_or_space", 1,
                    Unbounded)>>>>)>>,
       mapping |-> [darwin |-> Template(<<Text("open https://www.google.com/search?q="), GroupReplace(1, "+")>>),
           windows |-> Template(<<Text("start https://www.google.com/search?q="), GroupReplace(1, "+")>>),
           linux |-> Template(<<Text("xdg-open https://www.google.com/search?q="), GroupReplace(1, "+")>>)]],
    \* rule 30 (command_mapper.py line 455)
      [pattern |-> <<Lit("shutdown"), Rep("space", 1, Unbounded), Opt(Group(1, <<<<Lit("my"), Rep("space", 1,
                    Unbounded)>>>>)), Lit("computer")>>,
       mapping |-> [darwin |-> Literal("sudo shutdown -h now"),
           windows |-> Literal("shutdown /s /t 0"),
           linux |-> Literal("sudo shutdown -h now")]],
    \* rule 31 (command_mapper.py line 460)
      [pattern |-> <<Lit("restart"), Rep("space", 1, Unbounded), Opt(Group(1, <<<<Lit("my"), Rep("space", 1,
                    Unbounded)>>>>)), Group(2, <<<<Lit("pc")>>, <<Lit("computer")>>>>)>>,
       mapping |-> [darwin |-> Literal("sudo shutdown -r now"),
           windows |-> Literal("shutdown /r /t 0"),
           linux |-> Literal("sudo shutdown -r now")]],
    \* rule 32 (command_mapper.py line 465)
      [pattern |-> <<Lit("clear"), Rep("space", 1, Unbounded), Lit("the"), Rep("space", 1, Unbounded), Lit("screen")>>,
       mapping |-> [darwin |-> Literal("clear"),
           windows |-> Literal("cls"),
           linux |-> Literal("clear")]],
    \* rule 33 (command_mapper.py line 470)
      [pattern |-> <<Lit("check"), Rep("space", 1, Unbounded), Lit("system"), Rep("space", 1, Unbounded), Lit("info")>>,
       mapping |-> [darwin |-> Literal("system_profiler SPHardwareDataType"),
           windows |-> Literal("systeminfo"),
           linux |-> Literal("uname -a")]],
    \* rule 34 (command_mapper.py line 475)
      [pattern |-> <<Lit("check"), Rep("space", 1, Unbounded), Lit("date"), Rep("space", 1, Unbounded), Lit("and"),
                    Rep("space", 1, Unbounded), Lit("time")>>,
       mapping |-> [darwin |-> Literal("date"),
           windows |-> Literal("time /t & date /t"),
           linux |-> Literal("date")]],
    \* rule 35 (command_mapper.py line 480)
      [pattern |-> <<Lit("check"), Rep("space", 1, Unbounded), Lit("cpu"), Rep("space", 1, Unbounded), Lit("usage")>>,
       mapping |-> [darwin |-> Literal("top -l 1 | grep 'CPU usage'"),
           windows |-> Literal("wmic cpu get loadpercentage"),
           linux |-> Literal("top -bn1 | grep 'Cpu(s)'")]],
    \* rule 36 (command_mapper.py line 485)
      [pattern |-> <<Lit("check"), Rep("space", 1, Unbounded), Group(1, <<<<Lit("memory")>>, <<Lit("ram")>>>>),
                    Rep("space", 1, Unbounded), Lit("usage")>>,
       mapping |-> [darwin |-> Literal("vm_stat"),
           windows |-> Literal("systeminfo | findstr /C:'Total Physical Memory'"),
           linux |-> Literal("free -h")]],
    \* rule 37 (command_mapper.py line 490)
      [pattern |-> <<Lit("check"), Rep("space", 1, Unbounded), Group(1, <<<<Lit("memory")>>, <<Lit("ram")>>>>),
                    Rep("space", 1, Unbounded), Lit("status")>>,
       mapping |-> [darwin |-> Literal("vm_stat"),
           windows |-> Literal("systeminfo | findstr /C:'Total Physical Memory'"),
           linux |-> Literal("free -h")]],
    \* rule 38 (command_mapper.py line 497)
      [pattern |-> <<Lit("connect"), Rep("space", 1, Unbounded), Opt(Group(1, <<<<Lit("to"), Rep("space", 1,
                    Unbounded)>>>>)), Lit("wifi"), Rep("space", 1, Unbounded), Group(2,
                    <<<<Rep("nonspace", 1, Unbounded)>>>>)>>,
       mapping |-> [darwin |-> Template(<<Text("networksetup -setairportnetwork en0 "), GroupRef(2)>>),
           windows |-> Template(<<Text("netsh wlan connect name=\""), GroupRef(2), Text("\"")>>),
           linux |-> Template(<<Text("nmcli device wifi connect "), GroupRef(2)>>)]],
    \* rule 39 (command_mapper.py line 502)
      [pattern |-> <<Lit("disconnect"), Rep("space", 1, Unbounded), Opt(Group(1, <<<<Lit("from"), Rep("space", 1,
                    Unbounded)>>>>)), Lit("wifi")>>,
       mapping |-> [darwin |-> Literal("networksetup -setairportpower en0 off"),
           windows |-> Literal("netsh wlan disconnect"),
           linux |-> Literal("nmcli device disconnect")]],
    \* rule 40 (command_mapper.py line 507)
      [pattern |-> <<Lit("list"), Rep("space", 1, Unbounded), Lit("available"), Rep("space", 1, Unbounded),
                    Lit("wifi"), Rep("space", 1, Unbounded), Lit("networks")>>,
       mapping |-> [darwin |-> Literal("/System/Library/PrivateFrameworks/Apple80211.framework/Versions/Current/Resources/airport -s"),
           windows |-> Literal("netsh wlan show networks"),
           linux |-> Literal("nmcli device wifi list")]],
    \* rule 41 (command_mapper.py line 514)
      [pattern |-> <<Lit("start"), Rep("space", 1, Unbounded), Lit("redis"), Rep("space", 1, Unbounded),
                    Lit("sentinel")>>,
       mapping |-> [darwin |-> Literal("python -c \"from redis_sentinel_manager import RedisSentinelManager; manager = RedisSentinelManager(); print(manager.start_sentinel())\""),
           windows |-> Literal("redis-sentinel sentinel.conf"),
           linux |-> Literal("redis-sentinel /etc/redis/sentinel.conf")]],
    \* rule 42 (command_mapper.py line 519)
      [pattern |-> <<Lit("start"), Rep("space", 1, Unbounded), Lit("redis"), Rep("space", 1, Unbounded),
                    Lit("server")>>,
       mapping |-> [darwin |-> Literal("redis-server /Users/lakshmikanthd/Downloads/redis-5.0.7/redis.conf"),
           windows |-> Literal("redis-server"),
           linux |-> Literal("redis-server /etc/redis/redis.conf")]],
    \* rule 43 (command_mapper.py line 524)
      [pattern |-> <<Lit("stop"), Rep("space", 1, Unbounded), Lit("redis")>>,
       mapping |-> [darwin |-> Literal("redis-cli shutdown"),
           windows |-> Literal("redis-cli shutdown"),
           linux |-> Literal("redis-cli shutdown")]],
    \* rule 44 (command_mapper.py line 529)
      [pattern |-> <<Lit("restart"), Rep("space", 1, Unbounded), Lit("redis")>>,
       mapping |-> [darwin |-> Literal("redis-cli shutdown"),
           windows |-> Literal("redis-cli shutdown"),
           linux |-> Literal("redis-cli shutdown")]],
    \* rule 45 (command_mapper.py line 534)
      [pattern |-> <<Lit("check"), Rep("space", 1, Unbounded), Lit("redis"), Rep("space", 1, Unbounded),
                    Lit("status")>>,
       mapping |-> [darwin |-> Literal("redis-cli info server"),
           windows |-> Literal("redis-cli info server"),
           linux |-> Literal("redis-cli info server")]],
    \* rule 46 (command_mapper.py line 539)
      [pattern |-> <<Lit("check"), Rep("space", 1, Unbounded), Lit("redis"), Rep("space", 1, Unbounded),
                    Lit("sentinel"), Rep("space", 1, Unbounded), Lit("status")>>,
       mapping |-> [darwin |-> Literal("python -c \"from redis_sentinel_manager import RedisSentinelManager; manager = RedisSentinelManager(); print(manager.get_sentinel_status())\""),
           windows |-> Literal("redis-cli -p 26379 info server"),
           linux |-> Literal("redis-cli -p 26379 info server")]],
    \* rule 47 (command_mapper.py line 546)
      [pattern |-> <<Lit("show"), Rep("any", 0, Unbounded), Lit("date")>>,
       mapping |-> [all |-> Literal("date")]],
    \* rule 48 (command_mapper.py line 549)
      [pattern |-> <<Lit("show"), Rep("any", 0, Unbounded), Lit("me"), Rep("any", 0, Unbounded), Lit("date")>>,
       mapping |-> [all |-> Literal("date")]],
    \* rule 49 (command_mapper.py line 552)
      [pattern |-> <<Lit("show"), Rep("any", 0, Unbounded), Lit("today"), Rep("any", 0, Unbounded), Lit("date")>>,
       mapping |-> [all |-> Literal("date")]],
    \* rule 50 (command_mapper.py line 555)
      [pattern |-> <<Lit("what"), Rep("any", 0, Unbounded), Lit("date")>>,
       mapping |-> [all |-> Literal("date")]],
    \* rule 51 (command_mapper.py line 558)
      [pattern |-> <<Lit("current"), Rep("any", 0, Unbounded), Lit("time")>>,
       mapping |-> [all |-> Literal("date")]],
    \* rule 52 (command_mapper.py line 561)
      [pattern |-> <<Lit("what"), Rep("any", 0, Unbounded), Lit("time")>>,
       mapping |-> [all |-> Literal("date")]],
    \* rule 53 (command_mapper.py line 564)
      [pattern |-> <<Lit("display"), Rep("any", 0, Unbounded), Lit("date")>>,
       mapping |-> [all |-> Literal("date")]],
    \* rule 54 (command_mapper.py line 567)
      [pattern |-> <<Lit("display"), Rep("any", 0, Unbounded), Lit("time")>>,
       mapping |-> [all |-> Literal("date")]],
    \* rule 55 (command_mapper.py line 570)
      [pattern |-> <<Lit("today"), Rep("any", 0, Unbounded), Lit("date")>>,
       mapping |-> [all |-> Literal("date")]],
    \* rule 56 (command_mapper.py line 573)
      [pattern |-> <<Lit("check"), Rep("any", 0, Unbounded), Lit("wifi")>>,
       mapping |-> [darwin |-> Literal("networksetup -getinfo Wi-Fi"),
           windows |-> Literal("netsh wlan show interfaces"),
           linux |-> Literal("iwconfig")]],
    \* rule 57 (command_mapper.py line 578)
      [pattern |-> <<Lit("wifi"), Rep("any", 0, Unbounded), Lit("status")>>,
       mapping |-> [darwin |-> Literal("networksetup -getinfo Wi-Fi"),
           windows |-> Literal("netsh wlan show interfaces"),
           linux |-> Literal("iwconfig")]],
    \* rule 58 (command_mapper.py line 583)
      [pattern |-> <<Lit("network"), Rep("any", 0, Unbounded), Lit("status")>>,
       mapping |-> [darwin |-> Literal("ifconfig"),
           windows |-> Literal("ipconfig"),
           linux |-> Literal("ip addr")]],
    \* rule 59 (command_mapper.py line 588)
      [pattern |-> <<Lit("disk"), Rep("any", 0, Unbounded), Lit("space")>>,
       mapping |-> [darwin |-> Literal("df -h"),
           windows |-> Literal("wmic logicaldisk get size,freespace,caption"),
           linux |-> Literal("df -h")]],
    \* rule 60 (command_mapper.py line 593)
      [pattern |-> <<Lit("memory"), Rep("any", 0, Unbounded), Lit("usage")>>,
       mapping |-> [darwin |-> Literal("top -l 1 | head -n 10"),
           windows |-> Literal("wmic OS get TotalVisibleMemorySize,FreePhysicalMemory"),
           linux |-> Literal("free -h")]],
    \* rule 61 (command_mapper.py line 598)
      [pattern |-> <<Lit("cpu"), Rep("any", 0, Unbounded), Lit("usage")>>,
       mapping |-> [darwin |-> Literal("top -l 1 | grep 'CPU usage'"),
           windows |-> Literal("wmic cpu get loadpercentage"),
           linux |-> Literal("top -bn1 | grep 'Cpu(s)'")]],
    \* rule 62 (command_mapper.py line 605)
      [pattern |-> <<Lit("list"), Rep("any", 0, Unbounded), Lit("files")>>,
       mapping |-> [all |-> Literal("ls -la")]],
    \* rule 63 (command_mapper.py line 608)
      [pattern |-> <<Lit("show"), Rep("any", 0, Unbounded), Lit("files")>>,
       mapping |-> [all |-> Literal("ls -la")]],
    \* rule 64 (command_mapper.py line 611)
      [pattern |-> <<Lit("current"), Rep("any", 0, Unbounded), Lit("directory")>>,
       mapping |-> [all |-> Literal("pwd")]],
    \* rule 65 (command_mapper.py line 614)
      [pattern |-> <<Lit("where"), Rep("any", 0, Unbounded), Lit("am"), Rep("any", 0, Unbounded), Lit("i")>>,
       mapping |-> [all |-> Literal("pwd")]],
    \* rule 66 (command_mapper.py line 619)
      [pattern |-> <<Lit("list"), Rep("any", 0, Unbounded), Lit("processes")>>,
       mapping |-> [all |-> Literal("ps aux")]],
    \* rule 67 (command_mapper.py line 622)
      [pattern |-> <<Lit("show"), Rep("any", 0, Unbounded), Lit("processes")>>,
       mapping |-> [all |-> Literal("ps aux")]],
    \* rule 68 (command_mapper.py line 625)
      [pattern |-> <<Lit("kill"), Rep("any", 0, Unbounded), Lit("process"), Rep("any", 0, Unbounded), Group(1,
                    <<<<Rep("digit", 1, Unbounded)>>>>)>>,
       mapping |-> [all |-> Template(<<Text("kill -9 "), GroupRef(1)>>)]],
    \* rule 69 (command_mapper.py line 630)
      [pattern |-> <<Lit("restart"), Rep("any", 0, Unbounded), Lit("computer")>>,
       mapping |-> [darwin |-> Literal("sudo shutdown -r now"),
           windows |-> Literal("shutdown /r /t 0"),
           linux |-> Literal("sudo reboot")]],
    \* rule 70 (command_mapper.py line 635)
      [pattern |-> <<Lit("shutdown"), Rep("any", 0, Unbounded), Lit("computer")>>,
       mapping |-> [darwin |-> Literal("sudo shutdown -h now"),
           windows |-> Literal("shutdown /s /t 0"),
           linux |-> Literal("sudo shutdown -h now")]],
    \* rule 71 (command_mapper.py line 640)
      [pattern |-> <<Lit("sleep"), Rep("any", 0, Unbounded), Lit("computer")>>,
       mapping |-> [darwin |-> Literal("pmset sleepnow"),
           windows |-> Literal("powercfg /hibernate off && rundll32.exe powrprof.dll,SetSuspendState 0,1,0"),
           linux |-> Literal("systemctl suspend")]],
    \* rule 72 (command_mapper.py line 647)
      [pattern |-> <<Lit("list"), Rep("any", 0, Unbounded), Lit("all"), Rep("any", 0, Unbounded), Lit("commands")>>,
       mapping |-> [all |-> Literal("python -c \"from command_mapper import CommandMapper; mapper = CommandMapper(); categories = mapper.get_commands_by_category(); print('Available Commands by Category:'); [print(f'\\n{cat}:\\n' + '\\n'.join([f'  * {cmd.get(\\\"example\\\", \\\"Try the command\\\")}' for cmd in cmds])) for cat, cmds in categories.items()]\"")]],
    \* rule 73 (command_mapper.py line 650)
      [pattern |-> <<Lit("show"), Rep("any", 0, Unbounded), Lit("all"), Rep("any", 0, Unbounded), Lit("commands")>>,
       mapping |-> [all |-> Literal("python -c \"from command_mapper import CommandMapper; mapper = CommandMapper(); categories = mapper.get_commands_by_category(); print('Available Commands by Category:'); [print(f'\\n{cat}:\\n' + '\\n'.join([f'  * {cmd.get(\\\"example\\\", \\\"Try the command\\\")}' for cmd in cmds])) for cat, cmds in categories.items()]\"")]],
    \* rule 74 (command_mapper.py line 653)
      [pattern |-> <<Lit("help"), Rep("any", 0, Unbounded), Lit("commands")>>,
       mapping |-> [all |-> Literal("python -c \"from command_mapper import CommandMapper; mapper = CommandMapper(); categories = mapper.get_commands_by_category(); print('Available Commands by Category:'); [print(f'\\n{cat}:\\n' + '\\n'.join([f'  * {cmd.get(\\\"example\\\", \\\"Try the command\\\")}' for cmd in cmds])) for cat, cmds in categories.items()]\"")]],
    \* rule 75 (command_mapper.py line 656)
      [pattern |-> <<Lit("list"), Rep("any", 0, Unbounded), Lit("redis"), Rep("any", 0, Unbounded), Lit("commands")>>,
       mapping |-> [all |-> Literal("python -c \"from command_mapper import CommandMapper; mapper = CommandMapper(); redis_commands = [cmd for cat, cmds in mapper.get_commands_by_category().items() if 'redis' in cat.lower() for cmd in cmds]; print('Redis Commands:'); [print(f'  * {cmd.get(\\\"example\\\", \\\"Try the command\\\")}') for cmd in redis_commands]\"")]],
    \* rule 76 (command_mapper.py line 659)
      [pattern |-> <<Lit("show"), Rep("any", 0, Unbounded), Lit("redis"), Rep("any", 0, Unbounded), Lit("commands")>>,
       mapping |-> [all |-> Literal("python -c \"from command_mapper import CommandMapper; mapper = CommandMapper(); redis_commands = [cmd for cat, cmds in mapper.get_commands_by_category().items() if 'redis' in cat.lower() for cmd in cmds]; print('Redis Commands:'); [print(f'  * {cmd.get(\\\"example\\\", \\\"Try the command\\\")}') for cmd in redis_commands]\"")]],
    \* rule 77 (command_mapper.py line 664)
      [pattern |-> <<Lit("start"), Rep("any", 0, Unbounded), Lit("zookeeper")>>,
       mapping |-> [darwin |-> Literal("cd ~/Downloads/kafka_2.12-3.9.1 && bin/zookeeper-server-start.sh config/zookeeper.properties"),
           windows |-> Literal("cd %USERPROFILE%\\Downloads\\kafka_2.12-3.9.1 && bin\\zookeeper-server-start.bat config\\zookeeper.properties"),
           linux |-> Literal("cd ~/Downloads/kafka_2.12-3.9.1 && bin/zookeeper-server-start.sh config/zookeeper.properties")]],
    \* rule 78 (command_mapper.py line 671)
      [pattern |-> <<Lit("start"), Rep("any", 0, Unbounded), Lit("kafka")>>,
       mapping |-> [darwin |-> Literal("cd ~/Downloads/kafka_2.12-3.9.1 && bin/kafka-server-start.sh config/server.properties"),
           windows |-> Literal("cd %USERPROFILE%\\Downloads\\kafka_2.12-3.9.1 && bin\\kafka-server-start.bat config\\server.properties"),
           linux |-> Literal("cd ~/Downloads/kafka_2.12-3.9.1 && bin/kafka-server-start.sh config/server.properties")]],
    \* rule 79 (command_mapper.py line 676)
      [pattern |-> <<Lit("list"), Rep("any", 0, Unbounded), Lit("kafka"), Rep("any", 0, Unbounded), Lit("topics")>>,
       mapping |-> [all |-> Literal("kafka-topics --list --bootstrap-server localhost:9092")]],
    \* rule 80 (command_mapper.py line 679)
      [pattern |-> <<Lit("show"), Rep("any", 0, Unbounded), Lit("kafka"), Rep("any", 0, Unbounded), Lit("topics")>>,
       mapping |-> [all |-> Literal("kafka-topics --list --bootstrap-server localhost:9092")]],
    \* rule 81 (command_mapper.py line 682)
      [pattern |-> <<Lit("delete"), Rep("any", 0, Unbounded), Lit("kafka"), Rep("any", 0, Unbounded), Lit("topic"),
                    Rep("any", 0, Unbounded), Group(1, <<<<Rep("nonspace", 1, Unbounded)>>>>)>>,
       mapping |-> [all |-> Template(<<Text("kafka-topics --bootstrap-server localhost:9092 --delete --topic "), GroupRef(1)>>)]],
    \* rule 82 (command_mapper.py line 685)
      [pattern |-> <<Lit("delete"), Rep("any", 0, Unbounded), Lit("topic"), Rep("any", 0, Unbounded), Group(1,
                    <<<<Rep("nonspace", 1, Unbounded)>>>>)>>,
       mapping |-> [all |-> Template(<<Text("kafka-topics --bootstrap-server localhost:9092 --delete --topic "), GroupRef(1)>>)]]
    >>

\* str.replace(" ", by), half by half
RECURSIVE ReplaceSpaces(_, _)
ReplaceSpaces(s, by) ==
    IF Len(s) <= 1
    THEN (IF s = " " THEN by ELSE s)
    ELSE ReplaceSpaces(SubSeq(s, 1, Len(s) \div 2), by)
             \o ReplaceSpaces(SubSeq(s, Len(s) \div 2 + 1, Len(s)), by)

\* m.group(n) inside an f-string: a group that took no part formats as None
GroupText(groups, n) == IF groups[n] = None THEN "None" ELSE groups[n][1]

RECURSIVE FormatParts(_, _, _)
FormatParts(parts, groups, i) ==
    IF i > Len(parts)
    THEN ""
    ELSE (IF parts[i].k = "text"
          THEN parts[i].s
          ELSE ReplaceSpaces(GroupText(groups, parts[i].n), parts[i].by))
             \o FormatParts(parts, groups, i + 1)

\* command(match) for a lambda of the table
CallTemplate(value, match) == FormatParts(value.parts, match.groups, 1)

\* dict.get(key, default) over optionals
DictGet(mapping, key, default) ==
    IF key \in DOMAIN mapping THEN Some(mapping[key]) ELSE default

\* mapping.get(self.system, mapping.get("all"))
PlatformValue(mapping, platform) ==
    DictGet(mapping, platform, DictGet(mapping, "all", None))

\* The body of one turn of the loop of _fallback_map_command, given the match
\* of the rule's pattern and the mapping's entry for the platform: what the
\* turn returns, None when the loop goes on to the next rule.
TurnReturn(match, command) ==
    IF match = None \/ command = None
    THEN None
    ELSE IF command[1].k = "template"
         THEN Some(CallTemplate(command[1], match[1]))
         ELSE IF command[1].s # "" THEN Some(command[1].s) ELSE None

RuleReturn(rule, platform, user_input) ==
    TurnReturn(re_search(rule.pattern, user_input),
               PlatformValue(rule.mapping, platform))

\* The rules at which the loop would return
ReturningRules(rules, platform, user_input) ==
    { i \in 1..Len(rules) : RuleReturn(rules[i], platform, user_input) # None }

LastRule(returning) == CHOOSE i \in returning : \A j \in returning : j <= i

FirstRule(returning) == CHOOSE i \in returning : \A j \in returning : i <= j

LoopReturnsAtFirstMatch(rules, returning, platform, user_input) ==
    IF \A i \in 1..Len(rules) : re_search(rules[i].pattern, user_input) = None
    THEN None
    ELSE RuleReturn(rules[FirstRule({ i \in 1..Len(rules) :
                                        re_search(rules[i].pattern, user_input) # None })],
                    platform, user_input)

\* The loop returns at the first such rule, in the order of the table.
LoopReturn(rules, returning, platform, user_input) ==
    IF returning = {}
    THEN None
    ELSE RuleReturn(rules[FirstRule(returning)], platform, user_input)

Loop(rules, platform, user_input) ==
    LoopReturn(rules, ReturningRules(rules, platform, user_input),
               platform, user_input)

_fallback_map_command(platform, user_input) ==
    Loop(fallback_patterns, platform, user_input)

\* -------------------------------------------------------- the safety check

dangerous_patterns ==
    <<
      <<Lit("rm"), Rep("space", 1, Unbounded), Lit("-rf"), Rep("space", 1, Unbounded), Lit("/")>>,
      <<Lit("dd"), Rep("space", 1, Unbounded), Lit("if=/dev/zero")>>,
      <<Lit(":(){"), Rep("space", 0, Unbounded), Lit(":|:"), Rep("space", 0, Unbounded), Lit("&"), Rep("space", 0, Unbounded), Lit("};:")>>,
      <<Lit("mkfs.")>>,
      <<Lit("fdisk")>>,
      <<Lit("parted")>>,
      <<Lit("sudo"), Rep("space", 1, Unbounded), Lit("rm"), Rep("space", 1, Unbounded), Lit("-rf")>>,
      <<Lit("sudo"), Rep("space", 1, Unbounded), Lit("dd")>>,
      <<Lit("sudo"), Rep("space", 1, Unbounded), Lit("mkfs")>>,
      <<Lit("sudo"), Rep("space", 1, Unbounded), Lit("fdisk")>>,
      <<Lit("sudo"), Rep("space", 1, Unbounded), Lit("parted")>>
    >>

_is_safe_command_first_pattern_only(command) ==
    re_search(dangerous_patterns[1], command) = None

_is_safe_command(command) ==
    ~ \E k \in 1..Len(dangerous_patterns) :
          re_search(dangerous_patterns[k], command) # None

\* ------------------------------------------------------ spelling correction

command_keywords ==
    <<
      <<"redis", <<"redis", "reddis", "reds">>>>,
      <<"sentinel", <<"sentinel", "snetinel", "sental", "snetal", "snatel">>>>,
      <<"server", <<"server", "srever", "srvr">>>>,
      <<"start", <<"start", "sttart", "sart", "satrt">>>>,
      <<"stop", <<"stop", "sttop", "stp">>>>,
      <<"restart", <<"restart", "resttart", "restrt">>>>,
      <<"check", <<"check", "chek", "chck">>>>,
      <<"status", <<"status", "sttus", "staus">>>>,
      <<"memory", <<"memory", "memry", "memmory">>>>,
      <<"ram", <<"ram", "rm">>>>,
      <<"cpu", <<"cpu", "cuppu">>>>,
      <<"disk", <<"disk", "dsk">>>>,
      <<"network", <<"network", "netwrok", "netwrk">>>>,
      <<"wifi", <<"wifi", "wifi", "wifi">>>>,
      <<"port", <<"port", "prt">>>>,
      <<"process", <<"process", "proces", "prcess">>>>,
      <<"file", <<"file", "fil">>>>,
      <<"folder", <<"folder", "flder", "foler">>>>,
      <<"copy", <<"copy", "cpy", "coppy">>>>,
      <<"move", <<"move", "mov", "mve">>>>,
      <<"delete", <<"delete", "delte", "dlete">>>>,
      <<"rename", <<"rename", "renme", "renam">>>>,
      <<"create", <<"create", "creat", "crate">>>>,
      <<"open", <<"open", "opn", "ope">>>>,
      <<"search", <<"search", "serch", "seach">>>>,
      <<"google", <<"google", "googl", "gogle">>>>,
      <<"youtube", <<"youtube", "youtub", "yutube">>>>,
      <<"gmail", <<"gmail", "gmal", "gmil">>>>,
      <<"facebook", <<"facebook", "facebok", "fcebook">>>>,
      <<"twitter", <<"twitter", "twtter", "twiter">>>>,
      <<"instagram", <<"instagram", "instgram", "instagrm">>>>,
      <<"spotify", <<"spotify", "spotfy", "spotif">>>>,
      <<"reddit", <<"reddit", "redit", "redd">>>>,
      <<"whatsapp", <<"whatsapp", "whatsap", "whatspp">>>>,
      <<"shutdown", <<"shutdown", "shutdwn", "shutdn">>>>,
      <<"clear", <<"clear", "clr", "cler">>>>,
      <<"system", <<"system", "systm", "sysem">>>>,
      <<"info", <<"info", "inf", "infor">>>>,
      <<"usage", <<"usage", "usge", "usag">>>>,
      <<"connect", <<"connect", "conect", "connct">>>>,
      <<"disconnect", <<"disconnect", "disconect", "disconnct">>>>,
      <<"list", <<"list", "lst", "lits">>>>,
      <<"available", <<"available", "availble", "availabl">>>>,
      <<"networks", <<"networks", "netwrks", "netwks">>>>,
      <<"calculator", <<"calculator", "calc", "calcltr">>>>,
      <<"notepad", <<"notepad", "notepd", "notepd">>>>,
      <<"chrome", <<"chrome", "chrm", "chome">>>>,
      <<"firefox", <<"firefox", "firef", "firefx">>>>,
      <<"safari", <<"safari", "safri", "safr">>>>,
      <<"vscode", <<"vscode", "vscd", "vsc">>>>,
      <<"weather", <<"weather", "wether", "weathr">>>>,
      <<"time", <<"time", "tim", "tme">>>>,
      <<"date", <<"date", "dat", "dte">>>>
    >>

\* str.split(): the maximal runs of non-whitespace characters
RECURSIVE SplitFrom(_, _, _)
SplitFrom(s, pos, word) ==
    IF pos > Len(s)
    THEN IF word = "" THEN <<>> ELSE <<word>>
    ELSE IF Char(s, pos) \in Whitespace
         THEN (IF word = "" THEN <<>> ELSE <<word>>) \o SplitFrom(s, pos + 1, "")
         ELSE SplitFrom(s, pos + 1, word \o Char(s, pos))

split(s) == SplitFrom(s, 1, "")

\* " ".join(words)
RECURSIVE JoinFrom(_, _)
JoinFrom(words, i) ==
    IF i > Len(words)
    THEN ""
    ELSE IF i = Len(words)
         THEN words[i]
         ELSE words[i] \o " " \o JoinFrom(words, i + 1)

join(words) == JoinFrom(words, 1)

\* difflib.SequenceMatcher(None, a, b): positions are 1-based, ranges inclusive.
\* The length of the common run of a from i and b from j inside the ranges.
RECURSIVE CommonRun(_, _, _, _, _, _)
CommonRun(a, b, i, j, ahi, bhi) ==
    IF i > ahi \/ j > bhi \/ Char(a, i) # Char(b, j)
    THEN 0
    ELSE 1 + CommonRun(a, b, i + 1, j + 1, ahi, bhi)

\* The blocks a[i..i+k-1] = b[j..j+k-1] of the ranges, as <<i, j, k>>, each
\* as long as it can be from its start.
Blocks(a, b, alo, ahi, blo, bhi) ==
    { <<p[1], p[2], CommonRun(a, b, p[1], p[2], ahi, bhi)>> :
          p \in (alo..ahi) \X (blo..bhi) }

LongestSize(blocks) ==
    IF blocks = {}
    THEN 0
    ELSE CHOOSE k \in { m[3] : m \in blocks } : \A m \in blocks : m[3] <= k

EarliestBlock(longest) ==
    CHOOSE m \in longest :
        \A n \in longest : m[1] < n[1] \/ (m[1] = n[1] /\ m[2] <= n[2])

LongestBlock(blocks, size, alo, blo) ==
    IF size = 0
    THEN <<alo, blo, 0>>
    ELSE EarliestBlock({ m \in blocks : m[3] = size })

LongestOf(blocks, alo, blo) == LongestBlock(blocks, LongestSize(blocks), alo, blo)

\* find_longest_match: the longest block in the ranges; of the longest, the
\* one starting earliest in a, then earliest in b.
find_longest_match(a, b, alo, ahi, blo, bhi) ==
    LongestOf(Blocks(a, b, alo, ahi, blo, bhi), alo, blo)

\* get_matching_blocks, summed: the characters matched in the ranges, the
\* longest block m and then the ranges to its left and to its right.
RECURSIVE MatchedChars(_, _, _, _, _, _)
RECURSIVE MatchedAround(_, _, _, _, _, _, _)

MatchedAround(a, b, alo, ahi, blo, bhi, m) ==
    IF m[3] = 0
    THEN 0
    ELSE m[3]
         + MatchedChars(a, b, alo, m[1] - 1, blo, m[2] - 1)
         + MatchedChars(a, b, m[1] + m[3], ahi, m[2] + m[3], bhi)

MatchedChars(a, b, alo, ahi, blo, bhi) ==
    IF alo > ahi \/ blo > bhi
    THEN 0
    ELSE MatchedAround(a, b, alo, ahi, blo, bhi,
                       find_longest_match(a, b, alo, ahi, blo, bhi))

\* SequenceMatcher.ratio() = 2.0 * matches / (len(a) + len(b)), held as the
\* fraction <<numerator, denominator>>; 1.0 when both strings are empty.
_string_similarity(a, b) ==
    IF Len(a) + Len(b) = 0
    THEN <<1, 1>>
    ELSE <<2 * MatchedChars(a, b, 1, Len(a), 1, Len(b)), Len(a) + Len(b)>>

\* x > y for fractions with positive denominators
RatioGreater(x, y) == x[1] * y[2] > y[1] * x[2]

\* best_ratio = 0.8
Threshold == <<8, 10>>

\* word in command_keywords
IsKeyword(word) == \E k \in DOMAIN command_keywords : command_keywords[k][1] = word

\* all_variations = [correct_word] + variations
AllVariations(entry) == <<entry[1]>> \o entry[2]

\* The two loops of _correct_spelling over the keywords and, for each, over
\* all_variations: candidate <<k, v>> is variation v of keyword k.
Candidates(keywords) ==
    UNION { { <<k, v>> : v \in 1..Len(AllVariations(keywords[k])) } :
                k \in 1..Len(keywords) }

CandidateBefore(c, d) == c[1] < d[1] \/ (c[1] = d[1] /\ c[2] < d[2])

SimilarityWithoutLengthGuard(word, variation) == _string_similarity(word, variation)

\* The similarity a turn of the inner loop compares with best_ratio; a turn
\* that skips the comparison (a short word or variation) never exceeds it.
Similarity(word, variation) ==
    IF Len(word) >= 3 /\ Len(variation) >= 3
    THEN _string_similarity(word, variation)
    ELSE <<0, 1>>

Scores(keywords, word) ==
    [c \in Candidates(keywords) |->
        Similarity(word, AllVariations(keywords[c[1]])[c[2]])]

AtOrAbove(score) == { c \in DOMAIN score : ~RatioGreater(Threshold, score[c]) }

\* The turns whose similarity is above the starting best_ratio
Above(score) == { c \in DOMAIN score : RatioGreater(score[c], Threshold) }

\* A turn replaces best_match only with a strictly greater similarity, so the
\* loops end on the first turn, in their order, of the greatest similarity.
LastUpdate(score, above) ==
    CHOOSE c \in above :
        \A d \in above :
            /\ ~RatioGreater(score[d], score[c])
            /\ CandidateBefore(d, c) => RatioGreater(score[c], score[d])

\* best_match = variation, the spelling that matched, in place of correct_word
BestOfVariation(keywords, score, above) ==
    IF above = {}
    THEN None
    ELSE Some(AllVariations(keywords[LastUpdate(score, above)[1]])
                  [LastUpdate(score, above)[2]])

BestOf(keywords, score, above) ==
    IF above = {} THEN None ELSE Some(keywords[LastUpdate(score, above)[1]][1])

BestScored(keywords, score) == BestOf(keywords, score, Above(score))

\* best_match after the loops
BestMatch(word) == BestScored(command_keywords, Scores(command_keywords, word))

\* corrected_words.append(best_match if best_match else word)
BestOrWord(best_match, word) == IF best_match # None THEN best_match[1] ELSE word

CorrectWord(word) ==
    IF IsKeyword(word) THEN word ELSE BestOrWord(BestMatch(word), word)

CorrectWords(words) == [i \in 1..Len(words) |-> CorrectWord(words[i])]

\* corrected_input if corrected_input != user_input else None
ChangedOrNone(corrected_input, user_input) ==
    IF corrected_input # user_input THEN Some(corrected_input) ELSE None

_correct_spelling(user_input) ==
    ChangedOrNone(join(CorrectWords(split(user_input))), user_input)

\* platform.system().lower() on the hosts the model covers
Platforms == {"darwin", "windows", "linux", "freebsd"}

\* ------------------------------------------------------------ inputs (mapper)

\* The text handed to the mapper by its callers
RawInputs ==
    { "open chrome", "  Open Chrome ", "kill port 8085", "opne chrme",
      "search youtube for cats", "restart my computer", "show files by date",
      "chek memry usage", "hello world", "opne the pod bay doors",
      "search for fdisk", "" }

\* What openai.ChatCompletion.create did: it returned a reply with this
\* message content, it raised (network failure, rejected or missing
\* credentials, rate limit), or its response had no usable choices/content.
Reply(content) == [kind |-> "reply", content |-> content]
ApiError == [kind |-> "api_error"]
Malformed == [kind |-> "malformed"]
\* the backend was not called
NoAi == [kind |-> "none"]

AiContents ==
    { "ls -la", "sudo rm -rf /", "", "  google-chrome\n", "echo one\necho two",
      "xdg-open https://www.google.com/search?q=fdisk" }

AiOutcomes == { Reply(c) : c \in AiContents } \cup {ApiError, Malformed}

\* Candidate commands put to the safety check by the safety specification
SafetyContents ==
    { "ls -la", "date", "rm -rf /", "RM  -RF\t/home", "rm -rf ~/tmp", "rm -r /",
      "dd if=/dev/zero of=/dev/sda", "dd if=/dev/urandom of=x", ":(){ :|:& };:",
      "mkfs.ext4 /dev/sda1", "mkfs /dev/sda1", "fdisk -l", "echo FDisk",
      "cat departed.txt", "sudo rm -rf /", "sudo rm -rf tmp", "sudo rm tmp",
      "sudo dd of=x", "Sudo  Mkfs /dev/sda1", "sudo fdisk", "sudo\tparted",
      "sudo shutdown -h now", "echo one\nrm -rf /", "kill -9 1234" }

SafetyInputs == { "open chrome", "hello world" }

\* Inputs put to _correct_spelling by the spelling specification: trimmed,
\* lower-case text as map_to_command_with_correction passes it on.
SpellInputs ==
    { "rm old fiel", "ls -l", "go to yuotube", "cd my foldr", "open chrome",
      "open  chrome", "open\tchrome", "check memory usage",
      "restart redis server", "checx status", "cheqk status",
      "clxar the screen", "gmaix", "shutdwon pc" }

\* The pure steps of the mapper, evaluated once per input of the model.
\* Port requests put to map_to_command by the port specification: a verb of
\* the three port rules, "port" and a number of three to five digits.
PortVerbs == { "kill", "list", "find" }
PortNumbers == { "443", "8085", "3000", "80855", "65535" }
PortInputs ==
    { verb \o " port " \o n : verb \in PortVerbs, n \in PortNumbers }
        \cup { "list all ports with 8085" }

\* Phrases put to map_to_command by the phrase specification: phrases that
\* several rules match, searches, process kills, and phrases of the examples
\* table.
PhraseInputs ==
    { "search for current time", "open chrome and show files",
      "search youtube for music", "search spotify for songs",
      "search reddit for programming", "search for weather in London",
      "search for python tutorial", "search youtube for open chrome tips",
      "kill process 1234", "kill process 42", "kill process 7",
      "create folder my_folder", "delete folder my_folder", "what time is it",
      "delete kafka topic my_topic", "restart my computer", "open chrome",
      "kill port 8085", "check RAM usage" }
\* The entries of the examples table of _get_example_from_pattern for the
\* rules whose phrases are explored, by the rule's place in the table
examples ==
    [n \in {2, 7, 8, 9, 16, 27, 28, 31, 36, 51, 68, 69, 81} |->
        CASE n = 2 -> "kill port 8085"
          [] n = 7 -> "create folder my_folder"
          [] n = 8 -> "delete folder my_folder"
          [] n = 9 -> "open chrome"
          [] n = 16 -> "search youtube for music"
          [] n = 27 -> "search for weather in London"
          [] n = 28 -> "search for python tutorial"
          [] n = 31 -> "restart my computer"
          [] n = 36 -> "check RAM usage"
          [] n = 51 -> "what time is it"
          [] n = 68 -> "kill process 1234"
          [] n = 69 -> "restart my computer"
          [] n = 81 -> "delete kafka topic my_topic"]

\* Submissions typed at the prompt of main.py and chatbot.py
CallerInputs ==
    { "open chrome", "hello world", "search for fdisk", "restart my computer",
      "shutdown computer", "restart computer" }
\* Messages sent to the web UI
WebInputs == { "open chrome", "opne chrme", "hello world", "restart my computer" }
\* What the backend did during a submission
CallerAi == { Reply("ls -la"), Reply("sudo rm -rf /"), ApiError }

Normalized == { lower(strip(u)) : u \in RawInputs }
CorrectionTable == [u \in Normalized |-> _correct_spelling(u)]
Corrected == { c[1] : c \in { CorrectionTable[u] : u \in DOMAIN CorrectionTable } \ {None} }
NormTable ==
    [u \in RawInputs \cup Normalized \cup Corrected \cup PortInputs \cup CallerInputs
            \cup PhraseInputs
        |-> lower(strip(u))]
FallbackTable ==
    [p \in Platforms |->
        [u \in Normalized \cup Corrected \cup PortInputs \cup CallerInputs
                \cup { lower(strip(v)) : v \in PhraseInputs }
            |-> _fallback_map_command(p, u)]]
SpellTable == [u \in SpellInputs |-> _correct_spelling(u)]
CandidateTable == [c \in AiContents \cup SafetyContents |-> strip(c)]
SafeTable ==
    [c \in { CandidateTable[x] : x \in DOMAIN CandidateTable } |-> _is_safe_command(c)]

\* ------------------------------------------------------------------- mapper

\* How a call ended: it returned a value, or an exception left it.
Returned(value) == [raised |-> FALSE, value |-> value]
RaisedError == [raised |-> TRUE, value |-> None]

\* return command if self._is_safe_command(command) else None
Validate(command) ==
    IF SafeTable[command] THEN Returned(Some(command)) ELSE Returned(None)

_ai_map_command_without_try(user_input, ai) ==
    IF ai.kind = "reply" THEN Validate(CandidateTable[ai.content]) ELSE RaisedError

_ai_map_command_without_validation(user_input, ai) ==
    IF ai.kind = "reply"
    THEN Returned(Some(CandidateTable[ai.content]))
    ELSE Returned(None)

\* The body of the try returns the validated reply; any exception in it
\* (the request failing, a response without choices or content) is caught.
_ai_map_command(user_input, ai) ==
    IF ai.kind = "reply" THEN Validate(CandidateTable[ai.content]) ELSE Returned(None)

\* The two returns of map_to_command and its final return None
AiOrFallback(ai_command, fallback_command) ==
    IF ai_command.raised
    THEN RaisedError
    ELSE IF Truthy(ai_command.value)
         THEN Returned(ai_command.value)
         ELSE IF Truthy(fallback_command)
              THEN Returned(fallback_command)
              ELSE Returned(None)

\* map_to_command after user_input = user_input.strip().lower()
MapNormalized(user_input, ai) ==
    AiOrFallback(IF use_ai THEN _ai_map_command(user_input, ai) ELSE Returned(None),
                 FallbackTable[system][user_input])

map_to_command(user_input, ai) == MapNormalized(NormTable[user_input], ai)

\* Whether map_to_command_with_correction reaches its second map_to_command
SecondMapCall(user_input, exact_command, corrected_input) ==
    /\ ~exact_command.raised
    /\ ~Truthy(exact_command.value)
    /\ Truthy(corrected_input)
    /\ corrected_input[1] # user_input

CorrectedOutcomeKeepsFailedCorrection(corrected_command, user_input, corrected_input) ==
    IF corrected_command.raised
    THEN RaisedError
    ELSE Returned(<<corrected_command.value, user_input, corrected_input>>)

\* After the second map_to_command: its command with the correction, or the
\* final return None, user_input, None.
CorrectedOutcome(corrected_command, user_input, corrected_input) ==
    IF corrected_command.raised
    THEN RaisedError
    ELSE IF Truthy(corrected_command.value)
         THEN Returned(<<corrected_command.value, user_input, corrected_input>>)
         ELSE Returned(<<None, user_input, None>>)

ExactOrCorrected(user_input, exact_command, corrected_input, ai2) ==
    IF exact_command.raised
    THEN RaisedError
    ELSE IF Truthy(exact_command.value)
         THEN Returned(<<exact_command.value, user_input, None>>)
         ELSE IF SecondMapCall(user_input, exact_command, corrected_input)
              THEN CorrectedOutcome(map_to_command(corrected_input[1], ai2),
                                    user_input, corrected_input)
              ELSE Returned(<<None, user_input, None>>)

CorrectNormalizedWithoutCorrection(user_input, ai1, ai2) ==
    ExactOrCorrected(user_input, map_to_command(user_input, ai1), None, ai2)

\* map_to_command_with_correction after user_input = user_input.strip().lower()
CorrectNormalized(user_input, ai1, ai2) ==
    ExactOrCorrected(user_input, map_to_command(user_input, ai1),
                     CorrectionTable[user_input], ai2)

map_to_command_with_correction(user_input, ai1, ai2) ==
    CorrectNormalized(NormTable[user_input], ai1, ai2)

\* Whether the call consults the backend a second time
SecondBackendCall(user_input, ai1) ==
    SecondMapCall(user_input, map_to_command(user_input, ai1),
                  CorrectionTable[user_input])

\* ------------------------------------------------------------------ callers

\* One submission as its handler sees it: process_command of main.py,
\* process_user_input of chatbot.py or process_command of web_ui.py.  stage
\* is where the handler stands: at the prompt, about to call execute, or
\* returned.  executes counts its calls of execute; base is the number
\* of entries recorded before it began.
Submission(caller, stage, input, command, confirm, executes, base) ==
    [caller |-> caller, stage |-> stage, input |-> input, command |-> command,
     confirm |-> confirm, executes |-> executes, base |-> base]

Idle == Submission("none", "returned", "", None, None, 0, 0)

\* Prompt.ask(..., choices=["y", "n", "yes", "no"]) returns one of the
\* choices, or KeyboardInterrupt leaves it.
KeyboardInterrupt == None
PromptOutcomes == { Some(c) : c \in { "y", "n", "yes", "no" } } \cup {KeyboardInterrupt}

ConfirmedUnlessInterrupted(confirm) == confirm # KeyboardInterrupt

\* confirm.lower() in ['y', 'yes']
Confirmed(confirm) ==
    confirm # KeyboardInterrupt /\ lower(confirm[1]) \in { "y", "yes" }

\* if not mapped_command: ... return
AfterMapping(mapped_command) == IF Truthy(mapped_command) THEN "prompt" ELSE "returned"

\* The handler of main.py or chatbot.py from its start to the prompt
Begin(caller, user_input, ai, outcome) ==
    /\ mapped' = Some(outcome)
    /\ lastMap' = Some([op |-> "map_to_command", input |-> user_input,
                        ai1 |-> ai, ai2 |-> NoAi])
    /\ session' = Submission(caller, AfterMapping(outcome.value), user_input,
                             outcome.value, None, 0, Len(recorded))

\* process_command of web_ui.py: it maps, builds its reply and returns
WebBegin(user_input, ai1, ai2, outcome) ==
    /\ mapped' = Some(outcome)
    /\ lastMap' = Some([op |-> "map_to_command_with_correction",
                        input |-> user_input, ai1 |-> ai1, ai2 |-> ai2])
    /\ session' = Submission("web_ui", "returned", user_input, outcome.value[1],
                             None, 0, Len(recorded))

\* The prompt returns
Answer(confirm) ==
    session' = [session EXCEPT !.confirm = confirm,
                               !.stage = IF Confirmed(confirm) THEN "execute"
                                         ELSE "returned"]

\* result = executor.execute(mapped_command, user_input), then the display
\* of the result
Run(proc, write) ==
    /\ execute(session.command[1], session.input, proc, write)
    /\ session' = [session EXCEPT !.stage = "returned", !.executes = @ + 1]

\* ------------------------------------------------------------ specifications

Init ==
    /\ history = <<>>
    /\ history_file = FileMissing
    /\ result = None
    /\ lastExec = None
    /\ invoked = FALSE
    /\ recorded = <<>>
    /\ system \in Platforms
    /\ use_ai \in BOOLEAN
    /\ mapped = None
    /\ lastMap = None
    /\ peer_history = _load_history(FileMissing)
    /\ peer_recorded = <<>>
    /\ statistics = None
    /\ session = Idle

Execute ==
    \E c \in ExecCalls, proc \in ProcOutcomes, write \in WriteOutcomes :
        /\ Len(recorded) < MaxRuns
        /\ execute(c[1], c[2], proc, write)
        /\ UNCHANGED callerVars

Next == Execute

Spec == Init /\ [][Next]_vars

ExecuteCap ==
    \E c \in CapCalls, proc \in CapOutcomes :
        /\ Len(recorded) < MaxCapRuns
        /\ execute(c[1], c[2], proc, "ok")
        /\ UNCHANGED callerVars

NextCap == ExecuteCap

SpecCap == Init /\ [][NextCap]_vars

\* Runs of one executor whose history write succeeds or fails, up to the cap
\* and past it.
ExecutePersist ==
    \E write \in WriteOutcomes :
        /\ Len(recorded) < MaxCapRuns
        /\ execute("ls -la", "list files", Completed(0, "total 0\n", "", 1), write)
        /\ UNCHANGED callerVars

NextPersist == ExecutePersist

SpecPersist == Init /\ [][NextPersist]_vars

\* Two executors constructed on the same, not yet existing, history file;
\* their execute calls interleave in any order.
ExecuteFirst ==
    \E c \in CapCalls, proc \in CapOutcomes :
        /\ Len(recorded) + Len(peer_recorded) < MaxRaceRuns
        /\ execute(c[1], c[2], proc, "ok")
        /\ UNCHANGED callerVars

ExecuteSecond ==
    \E c \in CapCalls, proc \in CapOutcomes :
        /\ Len(recorded) + Len(peer_recorded) < MaxRaceRuns
        /\ peer_execute(c[1], c[2], proc, "ok")
        /\ UNCHANGED callerVars

NextRace == ExecuteFirst \/ ExecuteSecond

SpecRace == Init /\ [][NextRace]_vars

\* The executor on its own: the mapper's configuration plays no part in it.
InitExecutor == Init /\ system = "linux" /\ use_ai = FALSE

\* Runs, completed with exit code 0 or, among the first MaxMixedRuns of each
\* hundred, with exit code 1, and refused calls, up to the cap and past it;
\* get_statistics is called at any moment.
ExecuteStats ==
    \E c \in CapCalls,
       proc \in {Completed(0, "total 0\n", "", 1)}
                   \cup (IF Len(recorded) % HistoryCap < MaxMixedRuns
                         THEN {Completed(1, "", "ls: no such file\n", 2)}
                         ELSE {}) :
        /\ Len(recorded) < MaxCapRuns
        /\ execute(c[1], c[2], proc, "ok")
        /\ UNCHANGED callerVars

GetStatistics ==
    /\ statistics' = Some(get_statistics(history))
    /\ UNCHANGED <<execVars, mapVars, configVars, peerVars, session>>

\* A submission to main.py or chatbot.py: the mapping step
ProcessCommand ==
    \E caller \in {"main", "chatbot"}, u \in CallerInputs,
       ai \in (IF use_ai THEN CallerAi ELSE {NoAi}) :
        /\ session.stage = "returned"
        /\ Len(recorded) < MaxCallerRuns
        /\ Begin(caller, u, ai, map_to_command(u, ai))
        /\ UNCHANGED <<configVars, execVars, peerVars, statistics>>

\* A message to the web UI
WebProcessCommand ==
    \E u \in WebInputs, ai1 \in (IF use_ai THEN CallerAi ELSE {NoAi}) :
        \E ai2 \in (IF use_ai /\ SecondBackendCall(NormTable[u], ai1)
                     THEN CallerAi ELSE {NoAi}) :
            /\ session.stage = "returned"
            /\ WebBegin(u, ai1, ai2, map_to_command_with_correction(u, ai1, ai2))
            /\ UNCHANGED <<configVars, execVars, peerVars, statistics>>

\* The user answers the prompt "Execute this command?"
Confirm ==
    \E confirm \in PromptOutcomes :
        /\ session.stage = "prompt"
        /\ Answer(confirm)
        /\ UNCHANGED <<configVars, execVars, mapVars, peerVars, statistics>>

\* The confirmed command is executed
ExecuteConfirmed ==
    \E proc \in CapOutcomes :
        /\ session.stage = "execute"
        /\ Run(proc, "ok")
        /\ UNCHANGED statistics

NextCallers == ProcessCommand \/ WebProcessCommand \/ Confirm \/ ExecuteConfirmed

SpecCallers == Init /\ [][NextCallers]_vars

\* Runs of an executor up to the cap and past it; the history write of the
\* first MaxLostWrites runs of each hundred succeeds or fails.
ExecuteLogged ==
    \E write \in (IF Len(recorded) % HistoryCap < MaxLostWrites
                  THEN WriteOutcomes ELSE {"ok"}) :
        /\ Len(recorded) < MaxCapRuns
        /\ execute("ls -la", "list files", Completed(0, "total 0\n", "", 1), write)
        /\ UNCHANGED callerVars

\* The process ends and a new one constructs its CommandExecutor
Restart ==
    /\ __init__
    /\ UNCHANGED <<configVars, mapVars, peerVars, callerVars>>

\* executor.clear_history()
ClearHistory ==
    /\ clear_history
    /\ UNCHANGED <<configVars, mapVars, peerVars, callerVars>>

NextRestart == ExecuteLogged \/ Restart \/ ClearHistory

SpecRestart == InitExecutor /\ [][NextRestart]_vars

NextStats == ExecuteStats \/ GetStatistics

SpecStats == InitExecutor /\ [][NextStats]_vars

\* One call of CommandMapper.map_to_command; the backend is consulted only
\* when use_ai is set.
MapToCommand ==
    \E u \in RawInputs, ai \in (IF use_ai THEN AiOutcomes ELSE {NoAi}) :
        /\ mapped' = Some(map_to_command(u, ai))
        /\ lastMap' = Some([op |-> "map_to_command", input |-> u,
                            ai1 |-> ai, ai2 |-> NoAi])
        /\ UNCHANGED <<configVars, execVars, peerVars, callerVars>>

\* One call of CommandMapper.map_to_command_with_correction: up to two
\* backend calls, the second when the corrected input is mapped.
MapToCommandWithCorrection ==
    \E u \in RawInputs, ai1 \in (IF use_ai THEN AiOutcomes ELSE {NoAi}) :
        \E ai2 \in (IF use_ai /\ SecondBackendCall(NormTable[u], ai1)
                     THEN AiOutcomes ELSE {NoAi}) :
            /\ mapped' = Some(map_to_command_with_correction(u, ai1, ai2))
            /\ lastMap' = Some([op |-> "map_to_command_with_correction",
                                input |-> u, ai1 |-> ai1, ai2 |-> ai2])
            /\ UNCHANGED <<configVars, execVars, peerVars, callerVars>>

NextMapper == MapToCommand \/ MapToCommandWithCorrection

SpecMapper == Init /\ [][NextMapper]_vars

\* map_to_command on a port request
MapPort ==
    \E u \in PortInputs, ai \in (IF use_ai THEN AiOutcomes ELSE {NoAi}) :
        /\ mapped' = Some(map_to_command(u, ai))
        /\ lastMap' = Some([op |-> "map_to_command", input |-> u,
                            ai1 |-> ai, ai2 |-> NoAi])
        /\ UNCHANGED <<configVars, execVars, peerVars, callerVars>>

NextPorts == MapPort

SpecPorts == Init /\ [][NextPorts]_vars

\* map_to_command on a phrase
MapPhrase ==
    \E u \in PhraseInputs, ai \in (IF use_ai THEN CallerAi ELSE {NoAi}) :
        /\ mapped' = Some(map_to_command(u, ai))
        /\ lastMap' = Some([op |-> "map_to_command", input |-> u,
                            ai1 |-> ai, ai2 |-> NoAi])
        /\ UNCHANGED <<configVars, execVars, peerVars, callerVars>>

NextPhrases == MapPhrase

SpecPhrases == Init /\ [][NextPhrases]_vars

\* map_to_command with the backend's reply drawn from the candidate commands
\* of the safety check.
MapCandidate ==
    \E u \in SafetyInputs,
       ai \in (IF use_ai THEN { Reply(c) : c \in SafetyContents } ELSE {NoAi}) :
        /\ mapped' = Some(map_to_command(u, ai))
        /\ lastMap' = Some([op |-> "map_to_command", input |-> u,
                            ai1 |-> ai, ai2 |-> NoAi])
        /\ UNCHANGED <<configVars, execVars, peerVars, callerVars>>

NextSafety == MapCandidate

SpecSafety == Init /\ [][NextSafety]_vars

\* One call of CommandMapper._correct_spelling
CorrectSpelling ==
    \E u \in SpellInputs :
        /\ mapped' = Some(Returned(SpellTable[u]))
        /\ lastMap' = Some([op |-> "_correct_spelling", input |-> u,
                            ai1 |-> NoAi, ai2 |-> NoAi])
        /\ UNCHANGED <<configVars, execVars, peerVars, callerVars>>

NextSpelling == CorrectSpelling

SpecSpelling == Init /\ [][NextSpelling]_vars

\* ------------------------------------------------------- claims: the executor

StartsWith(s, prefix) == Len(s) >= Len(prefix) /\ SubSeq(s, 1, Len(prefix)) = prefix

\* Whether `command` holds an entry of the dangerous list as a substring when
\* letter case is ignored, compared character by character.
HoldsDangerousEntry(command) ==
    \E k \in 1..Len(dangerous_commands) :
        \E i \in 1..(Len(command) - Len(dangerous_commands[k]) + 1) :
            \A j \in 1..Len(dangerous_commands[k]) :
                LowerChar(Char(command, i + j - 1))
                    = LowerChar(Char(dangerous_commands[k], j))

HoldsDangerousEntryTable == [c \in ExecCommands |-> HoldsDangerousEntry(c)]

\* C1: an execute call whose command holds, case-insensitively, an entry of
\* the dangerous list returns success=false with the fixed "requires
\* additional confirmation" error, never reaches the shell and leaves the
\* in-memory history and the history file as they were.
C1_DangerousCommandIsRefused ==
    [][ (lastExec' # None /\ HoldsDangerousEntryTable[lastExec'[1].command])
        => /\ result' # None
           /\ result'[1].success = FALSE
           /\ result'[1].error = Some("This command requires additional confirmation due to safety concerns.")
           /\ invoked' = FALSE
           /\ history' = history
           /\ history_file' = history_file
           /\ recorded' = recorded ]_vars

C1_Witness ==
    /\ lastExec # None
    /\ lastExec[1].command = "SUDO RM -RF /tmp/x"
    /\ result = Some(BlockedResult)
    /\ ~invoked
    /\ Len(history) > 0
    /\ history_file.state = "ok"

\* C2 (as claimed): every execute call that passes the dangerous-command
\* pre-check, whatever the invocation does (exit code 0, another exit code,
\* timeout, failure to spawn), appends exactly one entry for that call to the
\* history and, when the file can be written, persists the history.
C2_EveryInvocationIsRecorded ==
    [][ (lastExec' # None /\ invoked' /\ lastExec'[1].write = "ok")
        => /\ Len(recorded') = Len(recorded) + 1
           /\ Len(history') > 0
           /\ history'[Len(history')] = recorded'[Len(recorded')]
           /\ history'[Len(history')].command = lastExec'[1].command
           /\ history'[Len(history')].original_input = lastExec'[1].original_input
           /\ history_file' = FileOk(history') ]_vars

\* C3: the in-memory history holds at most 100 entries, and they are the most
\* recently recorded ones in recording order; after 105 recorded entries it
\* holds exactly entries 6 to 105.
C3_HistoryIsLast100 ==
    /\ Len(history) <= 100
    /\ Len(history) = (IF Len(recorded) <= 100 THEN Len(recorded) ELSE 100)
    /\ \A i \in 1..Len(history) :
           history[i] = recorded[Len(recorded) - Len(history) + i]
    /\ Len(recorded) = 105 => (Len(history) = 100 /\ history[1].timestamp = 6
                                /\ history[100].timestamp = 105)

C3_Witness ==
    /\ Len(recorded) = 105
    /\ Len(history) = 100
    /\ history[1] = recorded[6]

\* C9: when the invoked command exceeds the timeout, execute returns (it does
\* not raise) success=false with the error "Command execution timed out after
\* 30 seconds.", which is neither the blocked message nor an "Execution
\* error" message.
C9_TimeoutResult ==
    (lastExec # None /\ invoked /\ lastExec[1].proc.kind = "timeout")
    => /\ result # None
       /\ result[1].success = FALSE
       /\ result[1].error = Some("Command execution timed out after 30 seconds.")
       /\ result[1].error # Some(BlockedMessage)
       /\ ~StartsWith(result[1].error[1], "Execution error")

C9_Witness ==
    /\ lastExec # None
    /\ invoked
    /\ lastExec[1].proc.kind = "timeout"
    /\ lastExec[1].command = "sleep 60"
    /\ result = Some(TimeoutResult)

\* C10: for an invocation that runs to completion, success is true exactly
\* when the process exit code is 0, and exit_code is the process exit code.
C10_SuccessIffExitCodeZero ==
    (lastExec # None /\ invoked /\ lastExec[1].proc.kind = "completed")
    => /\ result # None
       /\ result[1].success = (lastExec[1].proc.returncode = 0)
       /\ result[1].exit_code = lastExec[1].proc.returncode

C10_Witness ==
    /\ lastExec # None
    /\ invoked
    /\ lastExec[1].proc.kind = "completed"
    /\ lastExec[1].proc.returncode = 1
    /\ result # None
    /\ result[1].success = FALSE
    /\ result[1].exit_code = 1

\* --------------------------------------------------------- claims: the mapper

\* For each platform and normalized input, rule by rule in table order:
\* whether the rule's pattern matches and what the rule resolves to there.
RuleTable ==
    [p \in Platforms |->
        [u \in Normalized \cup Corrected |->
            [i \in 1..Len(fallback_patterns) |->
                [matches |-> re_search(fallback_patterns[i].pattern, u) # None,
                 resolution |-> RuleReturn(fallback_patterns[i], p, u)]]]]

\* The rules that match the input and resolve for the platform
Resolving(rules) == { i \in DOMAIN rules : rules[i].matches /\ rules[i].resolution # None }

\* What the table alone gives: the resolution of the earliest such rule
TableAlone(rules) ==
    IF Resolving(rules) = {}
    THEN None
    ELSE rules[CHOOSE i \in Resolving(rules) : \A j \in Resolving(rules) : i <= j].resolution

\* The state after a call of map_to_command / map_to_command_with_correction
MappedBy(op) == lastMap # None /\ mapped # None /\ lastMap[1].op = op

\* C4: with the backend disabled, map_to_command returns the resolution, for
\* the current platform, of the earliest rule that matches the normalized
\* input and resolves; never the different resolution of a rule declared
\* later that matches too; and none when no rule does.
C4_FirstMatchingRuleWins ==
    (MappedBy("map_to_command") /\ ~use_ai) =>
        LET rules == RuleTable[system][NormTable[lastMap[1].input]]
        IN  /\ ~mapped[1].raised
            /\ \A r1 \in Resolving(rules) :
                   (\A r0 \in Resolving(rules) : r1 <= r0)
                       => /\ mapped[1].value = rules[r1].resolution
                          /\ \A r2 \in Resolving(rules) :
                                 rules[r2].resolution # rules[r1].resolution
                                     => mapped[1].value # rules[r2].resolution
            /\ Resolving(rules) = {} => mapped[1].value = None

C4_Witness ==
    /\ MappedBy("map_to_command")
    /\ ~use_ai
    /\ system = "linux"
    /\ lastMap[1].input = "search youtube for cats"
    /\ mapped[1].value = Some("xdg-open https://www.youtube.com/results?search_query=cats")
    /\ \E r1, r2 \in Resolving(RuleTable[system]["search youtube for cats"]) :
           /\ r1 < r2
           /\ RuleTable[system]["search youtube for cats"][r1].resolution
                  # RuleTable[system]["search youtube for cats"][r2].resolution

\* C5: with the backend enabled, a reply that fails the safety check is not
\* what map_to_command returns: the call returns what the fallback table alone
\* gives for the input, so the reply's text comes back only when the table
\* itself resolves to that text.
C5_UnsafeCandidateFallsThrough ==
    (/\ MappedBy("map_to_command")
     /\ use_ai
     /\ lastMap[1].ai1.kind = "reply"
     /\ ~SafeTable[CandidateTable[lastMap[1].ai1.content]])
        => LET alone == TableAlone(RuleTable[system][NormTable[lastMap[1].input]])
           IN  /\ mapped[1] = Returned(alone)
               /\ mapped[1].value = Some(CandidateTable[lastMap[1].ai1.content])
                      => alone = Some(CandidateTable[lastMap[1].ai1.content])

C5_Witness ==
    /\ MappedBy("map_to_command")
    /\ use_ai
    /\ system = "linux"
    /\ lastMap[1].input = "open chrome"
    /\ lastMap[1].ai1 = Reply("sudo rm -rf /")
    /\ mapped[1] = Returned(Some("google-chrome"))

\* The backend failed: the request raised, the response had no usable
\* content, or the content was empty.
AiFailed(ai) ==
    \/ ai.kind \in {"api_error", "malformed"}
    \/ ai.kind = "reply" /\ CandidateTable[ai.content] = ""

\* C6: no call of the mapper raises, and when the backend fails,
\* map_to_command returns exactly what the fallback table alone gives.
C6_AiFailureGivesFallback ==
    /\ mapped # None => ~mapped[1].raised
    /\ (MappedBy("map_to_command") /\ use_ai /\ AiFailed(lastMap[1].ai1))
           => mapped[1] = Returned(TableAlone(RuleTable[system][NormTable[lastMap[1].input]]))

C6_Witness ==
    /\ MappedBy("map_to_command")
    /\ use_ai
    /\ system = "darwin"
    /\ lastMap[1].input = "kill port 8085"
    /\ lastMap[1].ai1 = ApiError
    /\ mapped[1] = Returned(Some("kill -9 $(lsof -t -i tcp:8085)"))

Signatures ==
    << [parts |-> <<"rm", "-rf", "/">>, gap |-> 1],
       [parts |-> <<"dd", "if=/dev/zero">>, gap |-> 1],
       [parts |-> <<":(){", ":|:", "&", "};:">>, gap |-> 0],
       [parts |-> <<"mkfs.">>, gap |-> 0],
       [parts |-> <<"fdisk">>, gap |-> 0],
       [parts |-> <<"parted">>, gap |-> 0],
       [parts |-> <<"sudo", "rm", "-rf">>, gap |-> 1],
       [parts |-> <<"sudo", "dd">>, gap |-> 1],
       [parts |-> <<"sudo", "mkfs">>, gap |-> 1],
       [parts |-> <<"sudo", "fdisk">>, gap |-> 1],
       [parts |-> <<"sudo", "parted">>, gap |-> 1] >>

\* Part k of the signature stands at pos and the later parts follow it
RECURSIVE PartsFrom(_, _, _, _)
PartsFrom(command, signature, k, pos) ==
    /\ pos + Len(signature.parts[k]) - 1 <= Len(command)
    /\ \A j \in 1..Len(signature.parts[k]) :
           LowerChar(Char(command, pos + j - 1)) = LowerChar(Char(signature.parts[k], j))
    /\ k < Len(signature.parts)
           => \E next \in (pos + Len(signature.parts[k]) + signature.gap)..Len(command) :
                  /\ \A w \in (pos + Len(signature.parts[k]))..(next - 1) :
                         Char(command, w) \in Whitespace
                  /\ PartsFrom(command, signature, k + 1, next)

HoldsSignature(command) ==
    \E s \in DOMAIN Signatures, pos \in 1..Len(command) :
        PartsFrom(command, Signatures[s], 1, pos)

SignatureTable == [c \in DOMAIN SafeTable |-> HoldsSignature(c)]

\* C8: the safety check rejects a candidate exactly when the candidate holds
\* one of the destructive signatures, in any letter case; a rejected reply is
\* not returned as the backend's answer and an accepted one is. It rejects
\* "sudo rm -rf /" and accepts "ls -la".
C8_RejectsExactlyTheSignatures ==
    /\ SafeTable["sudo rm -rf /"] = FALSE
    /\ SafeTable["ls -la"] = TRUE
    /\ (MappedBy("map_to_command") /\ use_ai /\ lastMap[1].ai1.kind = "reply")
           => LET candidate == CandidateTable[lastMap[1].ai1.content]
              IN  /\ SafeTable[candidate] = ~SignatureTable[candidate]
                  /\ mapped[1].value =
                         (IF ~SignatureTable[candidate] /\ candidate # ""
                          THEN Some(candidate)
                          ELSE FallbackTable[system][NormTable[lastMap[1].input]])

C8_Witness ==
    /\ MappedBy("map_to_command")
    /\ use_ai
    /\ system = "linux"
    /\ lastMap[1].input = "open chrome"
    /\ lastMap[1].ai1 = Reply("Sudo  Mkfs /dev/sda1")
    /\ SignatureTable["Sudo  Mkfs /dev/sda1"]
    /\ mapped[1] = Returned(Some("google-chrome"))

\* ------------------------------------------- claims: the executor, continued

\* The optional field for a captured stream: its text with the surrounding
\* whitespace trimmed, none when nothing is left.
TrimmedOrNone(stream) == IF strip(stream) = "" THEN None ELSE Some(strip(stream))

\* C11 (as claimed): after a completed invocation, output and error are the
\* trimmed stdout and stderr, and none whenever the trimmed text is empty,
\* also for a stream of whitespace only.
C11_EmptyStreamIsNone ==
    (lastExec # None /\ invoked /\ result # None /\ lastExec[1].proc.kind = "completed")
        => /\ result[1].output = TrimmedOrNone(lastExec[1].proc.stdout)
           /\ result[1].error = TrimmedOrNone(lastExec[1].proc.stderr)

\* C14: when the write of the history file fails, execute returns the result
\* of the completed process as it does when the write succeeds, and the
\* in-memory history ends with the entry of the call.
C14_WriteFailureIsSwallowed ==
    [][ (/\ lastExec' # None
         /\ invoked'
         /\ lastExec'[1].proc.kind = "completed"
         /\ lastExec'[1].write # "ok")
        => /\ result' = Some(CompletedTable[lastExec'[1].proc])
           /\ result'[1].exit_code = lastExec'[1].proc.returncode
           /\ result'[1].success = (lastExec'[1].proc.returncode = 0)
           /\ Len(history') = Len(history) + 1
           /\ SubSeq(history', 1, Len(history)) = history
           /\ history'[Len(history')].command = lastExec'[1].command
           /\ history'[Len(history')].original_input = lastExec'[1].original_input
           /\ history'[Len(history')].exit_code = lastExec'[1].proc.returncode
           /\ history_file' \in {history_file, FileCorrupt} ]_vars

C14_Witness ==
    /\ lastExec # None
    /\ invoked
    /\ lastExec[1].proc = Completed(1, "", "ls: no such file\n", 2)
    /\ lastExec[1].write = "open_fails"
    /\ result = Some(ExecutionResult(FALSE, None, Some("ls: no such file"), 1, 2))
    /\ Len(history) = 2
    /\ history[2].command = lastExec[1].command
    /\ history[2].exit_code = 1
    /\ history_file = FileOk(<<history[1]>>)

\* C12: after a recorded run whose file write succeeded, the file holds
\* exactly the in-memory history, whatever it held before: the entries
\* recorded last, at most 100 of them, in recording order.
C12_FileHoldsTheHistory ==
    (lastExec # None /\ invoked /\ lastExec[1].proc.kind = "completed"
        /\ lastExec[1].write = "ok")
        => /\ history_file.state = "ok"
           /\ history_file.entries = history
           /\ Len(history_file.entries) = (IF Len(recorded) <= 100 THEN Len(recorded) ELSE 100)
           /\ \A i \in 1..Len(history_file.entries) :
                  history_file.entries[i]
                      = recorded[Len(recorded) - Len(history_file.entries) + i]

C12_Witness ==
    /\ lastExec # None
    /\ lastExec[1].write = "ok"
    /\ Len(recorded) = 105
    /\ history_file.state = "ok"
    /\ Len(history_file.entries) = 100
    /\ history_file.entries[1].timestamp = 6
    /\ history_file.entries[100].timestamp = 105

Entries(h) == { h[i] : i \in 1..Len(h) }

\* C13: each executor's write replaces the whole file by that executor's own
\* history with the new entry, whatever the other executor has written; so
\* the interleavings of two executors on one path reach a file that lacks an
\* entry the other executor recorded and wrote.
C13_WriteIsTheWritersView ==
    [][ /\ recorded' # recorded
            => history_file' = FileOk(Append(history, recorded'[Len(recorded')]))
        /\ peer_recorded' # peer_recorded
            => history_file' = FileOk(Append(peer_history, peer_recorded'[Len(peer_recorded')])) ]_vars

C13_Witness ==
    /\ Len(recorded) = 1
    /\ Len(peer_recorded) = 1
    /\ history_file = FileOk(peer_history)
    /\ Entries(recorded) \cap Entries(history_file.entries) = {}
    /\ recorded[1].timestamp < history_file.entries[1].timestamp

\* ------------------------------------------------------- claims: correction

\* The tokens of the input of the last _correct_spelling call, and those of
\* the text the call leaves the caller with (the input when it returns none).
InputTokens == split(lastMap[1].input)
OutputTokens ==
    split(IF mapped[1].value = None THEN lastMap[1].input ELSE mapped[1].value[1])

\* C15: a token shorter than 3 characters stands unchanged at its position
\* in the corrected string, also when it is a listed variant of a keyword.
C15_ShortTokensAreKept ==
    MappedBy("_correct_spelling") =>
        /\ Len(OutputTokens) = Len(InputTokens)
        /\ \A i \in 1..Len(InputTokens) :
               Len(InputTokens[i]) < 3 => OutputTokens[i] = InputTokens[i]

C15_Witness ==
    /\ MappedBy("_correct_spelling")
    /\ lastMap[1].input = "rm old fiel"
    /\ \E k \in DOMAIN command_keywords :
           \E v \in DOMAIN command_keywords[k][2] : command_keywords[k][2][v] = "rm"
    /\ mapped[1].value = Some("rm old file")

\* C16 (as claimed): for an input whose tokens are all canonical keywords
\* the correction step returns none.
C16_CanonicalInputIsNotCorrected ==
    (MappedBy("_correct_spelling")
        /\ \A i \in 1..Len(InputTokens) :
               \E k \in DOMAIN command_keywords : command_keywords[k][1] = InputTokens[i])
        => mapped[1].value = None

\* The similarity of a token with each keyword and variation of 3 characters
\* or more, as <<2 * matched characters, summed lengths>>.
TokenScores(word) ==
    { _string_similarity(word, AllVariations(command_keywords[c[1]])[c[2]]) :
          c \in { d \in Candidates(command_keywords) :
                      Len(AllVariations(command_keywords[d[1]])[d[2]]) >= 3 } }

SpellTokens == UNION { { split(u)[i] : i \in 1..Len(split(u)) } : u \in SpellInputs }

ScoreTable == [w \in SpellTokens |-> TokenScores(w)]

\* C17: a token that is no keyword is replaced only when its best similarity
\* is strictly greater than 0.8, that is 10 * 2M > 8 * T; with a best
\* similarity of exactly 0.8 or below it is left as it is.
C17_ThresholdIsStrict ==
    MappedBy("_correct_spelling") =>
        \A i \in 1..Len(InputTokens) :
            OutputTokens[i] # InputTokens[i]
                <=> /\ Len(InputTokens[i]) >= 3
                    /\ \A k \in DOMAIN command_keywords :
                           command_keywords[k][1] # InputTokens[i]
                    /\ \E score \in ScoreTable[InputTokens[i]] :
                           10 * score[1] > 8 * score[2]

C17_Witness ==
    /\ MappedBy("_correct_spelling")
    /\ lastMap[1].input = "checx status"
    /\ <<8, 10>> \in ScoreTable["checx"]
    /\ \A score \in ScoreTable["checx"] : 10 * score[1] <= 8 * score[2]
    /\ mapped[1].value = None

\* C27: the corrected string has as many whitespace-delimited tokens as the
\* input; each of its tokens is the input token at that position or a
\* canonical keyword; a token that is a canonical keyword is never changed.
C27_CorrectionIsTokenByToken ==
    (MappedBy("_correct_spelling") /\ mapped[1].value # None) =>
        /\ Len(split(mapped[1].value[1])) = Len(InputTokens)
        /\ \A i \in 1..Len(InputTokens) :
               /\ \/ split(mapped[1].value[1])[i] = InputTokens[i]
                  \/ IsKeyword(split(mapped[1].value[1])[i])
               /\ IsKeyword(InputTokens[i]) =>
                      split(mapped[1].value[1])[i] = InputTokens[i]

C27_Witness ==
    /\ MappedBy("_correct_spelling")
    /\ lastMap[1].input = "cheqk status"
    /\ mapped[1].value = Some("check status")
    /\ IsKeyword("status") /\ IsKeyword("check") /\ ~IsKeyword("cheqk")

\* ------------------------------------------------------ claims: port requests

\* The command of the port rule of a verb for a port number
PortCommand(verb, n) ==
    IF verb = "kill"
    THEN "kill -9 $(lsof -t -i tcp:" \o n \o ")"
    ELSE "lsof -i tcp:" \o n

\* C18: with the backend disabled, "kill port N", "list port N" and
\* "find port N" with N of four or five digits map to the port command
\* holding the complete number N.
C18_PortIsSubstitutedWhole ==
    (MappedBy("map_to_command") /\ ~use_ai) =>
        \A verb \in PortVerbs, n \in PortNumbers :
            (Len(n) \in {4, 5} /\ lastMap[1].input = verb \o " port " \o n)
                => mapped[1] = Returned(Some(PortCommand(verb, n)))

\* ------------------------------------------- claims: correction, end to end

\* What map_to_command_with_correction('opne chrme') is to return with the
\* backend disabled: the command of map_to_command('open chrome'), the input,
\* and the correction 'open chrome'.
OpenChromeCorrected ==
    Returned(<<map_to_command("open chrome", NoAi).value, "opne chrme", Some("open chrome")>>)

\* C19 as stated, on every platform: with the backend disabled,
\* map_to_command_with_correction('opne chrme') returns the command of
\* map_to_command('open chrome') and the corrected string 'open chrome'.
C19_OnEveryPlatform ==
    (MappedBy("map_to_command_with_correction") /\ ~use_ai
        /\ lastMap[1].input = "opne chrme")
        => mapped[1] = OpenChromeCorrected

\* C19: on darwin, windows and linux, with the backend disabled,
\* map_to_command_with_correction('opne chrme') corrects the input to
\* 'open chrome', returns the command that map_to_command('open chrome')
\* returns, which is a command ('google-chrome' on linux), and returns
\* 'open chrome' as the corrected string.
C19_CorrectedOpenChrome ==
    (MappedBy("map_to_command_with_correction") /\ ~use_ai
        /\ lastMap[1].input = "opne chrme"
        /\ system \in {"darwin", "windows", "linux"})
        => /\ CorrectionTable["opne chrme"] = Some("open chrome")
           /\ mapped[1] = OpenChromeCorrected
           /\ mapped[1].value[1] # None
           /\ system = "linux" => mapped[1].value[1] = Some("google-chrome")

C19_Witness ==
    /\ MappedBy("map_to_command_with_correction")
    /\ ~use_ai
    /\ system = "windows"
    /\ lastMap[1].input = "opne chrme"
    /\ mapped[1] = Returned(<<Some("start chrome"), "opne chrme", Some("open chrome")>>)
    /\ map_to_command("open chrome", NoAi) = Returned(Some("start chrome"))

\* --------------------------------------------------- claims: the AI candidate

\* The first line of a text: the trimmed text up to its first line break,
\* trimmed.
FirstLine(text) ==
    LET trimmed == strip(text)
        breaks == { i \in 1..Len(trimmed) : Char(trimmed, i) = "\n" }
    IN  IF breaks = {}
        THEN trimmed
        ELSE strip(SubSeq(trimmed, 1, (CHOOSE i \in breaks : \A j \in breaks : i <= j) - 1))

\* C20: with the backend enabled and a reply whose first line is a non-empty
\* safe command, map_to_command returns that first line and nothing of the
\* later lines.
C20_OnlyFirstLineIsTaken ==
    (MappedBy("map_to_command") /\ use_ai /\ lastMap[1].ai1.kind = "reply")
        => LET line == FirstLine(lastMap[1].ai1.content)
           IN  (line # "" /\ _is_safe_command(line))
                   => mapped[1] = Returned(Some(line))

\* ------------------------------------------------------- claims: statistics

\* The counts the history gives: its entries, those with success set, the rest
CountsOf(h) ==
    [total |-> Len(h),
     successful |-> Cardinality({ i \in 1..Len(h) : h[i].success = TRUE }),
     failed |-> Cardinality({ i \in 1..Len(h) : h[i].success = FALSE })]

\* A returned statistics record agrees with the history it was taken from.
AgreesWith(stats, h) ==
    /\ stats.total_commands = CountsOf(h).total
    /\ stats.total_commands <= HistoryCap
    /\ stats.successful_commands = CountsOf(h).successful
    /\ stats.failed_commands = stats.total_commands - stats.successful_commands
    /\ stats.failed_commands = CountsOf(h).failed
    /\ h = <<>> => /\ stats.total_commands = 0
                   /\ stats.successful_commands = 0
                   /\ stats.failed_commands = 0
                   /\ stats.success_rate[1] = 0
                   /\ stats.average_execution_time[1] = 0

\* C21: in every state get_statistics gives the counts of the in-memory
\* history: total its length, at most 100, successful its entries with
\* success set, failed the rest, all zero when it is empty; a call of
\* get_statistics returns exactly that, and an execute call refused by the
\* pre-check leaves what get_statistics gives unchanged.
C21_StatisticsFollowHistory ==
    /\ [](AgreesWith(get_statistics(history), history))
    /\ [][(statistics' # statistics)
               => (statistics' # None /\ AgreesWith(statistics'[1], history))]_vars
    /\ [][(lastExec' # None /\ DangerousTable[lastExec'[1].command])
               => (get_statistics(history') = get_statistics(history))]_vars

C21_Witness ==
    /\ statistics # None
    /\ Len(recorded) > HistoryCap
    /\ Len(history) = HistoryCap
    /\ history[HistoryCap].success = FALSE
    /\ statistics[1].total_commands = 100
    /\ statistics[1].successful_commands = 99
    /\ statistics[1].failed_commands = 1
    /\ result = Some(BlockedResult)
    /\ ~invoked

\* ---------------------------------------------------------- claims: callers

\* The user said yes at the prompt of the submission
SaidYes == session.confirm # None /\ session.confirm[1] \in { "y", "yes" }

\* A step in which execute was called
ExecuteCalled == lastExec' # lastExec \/ result' # result \/ recorded' # recorded

\* C22: a submission calls execute at most once, and only at the point
\* after the mapper returned a command for it and the user said yes, with
\* that command and that input; a submission without a command, with a
\* declined or interrupted prompt, or to the web UI calls execute never and
\* adds no history entry.
C22_ExecuteOnlyAfterMapAndConfirm ==
    /\ [](/\ session.executes <= 1
          /\ Len(recorded) <= session.base + session.executes
          /\ session.executes = 1
                 => /\ session.caller \in { "main", "chatbot" }
                    /\ Truthy(session.command)
                    /\ SaidYes
          /\ (session.caller = "web_ui" \/ ~Truthy(session.command) \/ ~SaidYes)
                 => /\ session.executes = 0
                    /\ session.stage # "execute"
                    /\ Len(recorded) = session.base)
    /\ [][ExecuteCalled
               => /\ session.stage = "execute"
                  /\ session.executes = 0
                  /\ SaidYes
                  /\ mapped = Some(Returned(session.command))
                  /\ lastMap[1].input = session.input
                  /\ lastExec'[1].command = session.command[1]
                  /\ lastExec'[1].original_input = session.input]_vars

C22_Witness ==
    /\ session.caller = "chatbot"
    /\ session.stage = "returned"
    /\ session.input = "open chrome"
    /\ session.command = Some("google-chrome")
    /\ session.confirm = Some("yes")
    /\ session.executes = 1
    /\ invoked
    /\ Len(recorded) = session.base + 1
    /\ recorded[Len(recorded)].command = "google-chrome"

\* The submission went to main.py or chatbot.py and the mapper answered it
\* from the fallback table: the backend was not consulted or it failed.
AnsweredByTable ==
    /\ session.caller \in { "main", "chatbot" }
    /\ (~use_ai \/ lastMap[1].ai1 = ApiError)

PowerInputs == { "shutdown computer", "restart computer" }

\* C28: the mapper returns a fallback-table result without putting it to its
\* safety check; on darwin and linux the results for 'shutdown computer' and
\* 'restart computer' contain 'sudo shutdown', and when the user confirms
\* them execute returns the 'requires additional confirmation' result,
\* invokes nothing and records nothing.
C28_MappedCommandCanBeUnexecutable ==
    /\ [](AnsweredByTable
              => session.command = FallbackTable[system][NormTable[session.input]])
    /\ []((AnsweredByTable /\ system \in { "darwin", "linux" }
                /\ session.input \in PowerInputs)
              => /\ Truthy(session.command)
                 /\ Contains(session.command[1], "sudo shutdown")
                 /\ session.executes = 1
                        => /\ result = Some(BlockedResult)
                           /\ ~invoked
                           /\ Len(recorded) = session.base)
    /\ [][(ExecuteCalled /\ Contains(session.command[1], "sudo shutdown"))
               => /\ result' = Some(BlockedResult)
                  /\ ~invoked'
                  /\ UNCHANGED <<history, history_file, recorded>>]_vars

\* The user confirmed 'restart computer' on linux and execute refused it
C28_Witness ==
    /\ system = "linux"
    /\ AnsweredByTable
    /\ session.input = "restart computer"
    /\ session.command = Some("sudo shutdown -r now")
    /\ SaidYes
    /\ session.executes = 1
    /\ result = Some(BlockedResult)
    /\ ~invoked
    /\ recorded = <<>>
    /\ history_file = FileMissing

\* ----------------------------------------------------------- claims: rules

\* For a platform and an input, every rule's match and resolution
RulesOf(p, u) ==
    [i \in 1..Len(fallback_patterns) |->
        [matches |-> re_search(fallback_patterns[i].pattern, u) # None,
         resolution |-> RuleReturn(fallback_patterns[i], p, u)]]

TablePlatforms == { "darwin", "windows", "linux" }

\* The rules that match the input and have no value for the platform
Skipped(rules) == { i \in DOMAIN rules : rules[i].matches /\ rules[i].resolution = None }

\* C23: every rule of the table has, for each of darwin, windows and linux,
\* exactly one value: the platform's entry or the 'all' entry, never both;
\* and, with the backend disabled, a matching rule without a value for the
\* current platform is passed over: map_to_command returns the resolution of
\* the earliest matching rule that has one, none only when no matching rule
\* has one.
C23_RuleWithoutValueIsSkipped ==
    /\ \A i \in 1..Len(fallback_patterns), p \in TablePlatforms :
           /\ (p \in DOMAIN fallback_patterns[i].mapping)
                  # ("all" \in DOMAIN fallback_patterns[i].mapping)
           /\ PlatformValue(fallback_patterns[i].mapping, p) # None
    /\ (MappedBy("map_to_command") /\ ~use_ai)
           => LET rules == RulesOf(system, lower(strip(lastMap[1].input)))
              IN  /\ mapped[1] = Returned(TableAlone(rules))
                  /\ \A i \in Skipped(rules) :
                         (\E j \in Resolving(rules) : j > i) => mapped[1].value # None

C23_Witness ==
    /\ MappedBy("map_to_command")
    /\ ~use_ai
    /\ system = "freebsd"
    /\ lastMap[1].input = "search for current time"
    /\ mapped[1] = Returned(Some("date"))
    /\ 28 \in Skipped(RulesOf("freebsd", "search for current time"))
    /\ 51 \in Resolving(RulesOf("freebsd", "search for current time"))

\* The searches of a site or of the weather, with the rule declared for each
SearchForms ==
    { [prefix |-> "search youtube for ", holds |-> "", rule |-> 16],
      [prefix |-> "search spotify for ", holds |-> "", rule |-> 23],
      [prefix |-> "search reddit for ", holds |-> "", rule |-> 25],
      [prefix |-> "search ", holds |-> " weather in ", rule |-> 27] }

HasForm(u, form) == StartsWith(u, form.prefix) /\ Contains(u, form.holds)

\* C24: with the backend disabled, on darwin, windows and linux, an input
\* 'search youtube for X', 'search spotify for X', 'search reddit for X' or
\* 'search ... weather in X' is resolved by the rule declared for it: that
\* rule is the earliest matching rule and its resolution is returned, never
\* that of the broad 'search.*for' rule or of any other rule.
C24_SearchGoesToItsOwnRule ==
    (MappedBy("map_to_command") /\ ~use_ai /\ system \in TablePlatforms)
        => \A form \in SearchForms :
               HasForm(lower(strip(lastMap[1].input)), form)
                   => LET rules == RulesOf(system, lower(strip(lastMap[1].input)))
                      IN  /\ rules[form.rule].matches
                          /\ \A i \in 1..(form.rule - 1) : ~rules[i].matches
                          /\ mapped[1] = Returned(rules[form.rule].resolution)
                          /\ mapped[1].value # None

\* Process ids typed after 'kill process '
Pids == { "7", "42", "1234" }

\* C25: with the backend disabled, 'kill process N' maps to 'kill -9 N' with
\* the complete process id N.
C25_PidIsSubstitutedWhole ==
    (MappedBy("map_to_command") /\ ~use_ai)
        => \A n \in Pids :
               lastMap[1].input = "kill process " \o n
                   => mapped[1] = Returned(Some("kill -9 " \o n))

\* C26: with the backend disabled, on darwin, windows and linux, the example
\* phrase of a rule, lowercased, maps to a command, which is that rule's
\* resolution of the phrase for the platform.
C26_ExamplePhraseGivesItsRule ==
    (MappedBy("map_to_command") /\ ~use_ai /\ system \in TablePlatforms)
        => \A n \in DOMAIN examples :
               lastMap[1].input = examples[n]
                   => /\ mapped[1].value # None
                      /\ mapped[1].value =
                             RuleReturn(fallback_patterns[n], system, lower(examples[n]))

\* ------------------------------------------ claims: restarts and clearing

\* A step in which a new executor was constructed after the earlier one ran
Restarted == lastExec # None /\ lastExec' = None

\* A step in which execute recorded an entry
Recorded == recorded' # recorded

\* C29: a new executor starts with the entries the file holds, or with none
\* when the file is missing or cannot be decoded; every recorded entry
\* goes to the end of that history, oldest entries leave first, and across
\* restarts and runs neither the history nor the file exceeds 100 entries.
C29_HistorySurvivesRestarts ==
    /\ [](/\ Len(history) <= HistoryCap
          /\ Len(history_file.entries) <= HistoryCap
          /\ \A i \in 1..(Len(history) - 1) :
                 history[i].timestamp < history[i + 1].timestamp)
    /\ [][Restarted
               => /\ history_file' = history_file
                  /\ history' = IF history_file.state = "ok"
                                 THEN history_file.entries ELSE <<>>]_vars
    /\ [][Recorded
               => history' = LastEntries(Append(history, recorded'[Len(recorded')]),
                                         HistoryCap)]_vars

\* After 100 persisted runs the write of run 101 failed, the executor was
\* restarted on the file of the first 100, and run 102 was recorded.
C29_Witness ==
    /\ Len(recorded) = HistoryCap + 2
    /\ lastExec # None
    /\ Len(history) = HistoryCap
    /\ history[1] = recorded[2]
    /\ history[HistoryCap - 1] = recorded[HistoryCap]
    /\ history[HistoryCap] = recorded[HistoryCap + 2]
    /\ history_file = FileOk(history)

\* The state clear_history leaves after earlier runs: entries were recorded,
\* none is held and there is no file.
AfterClear == recorded # <<>> /\ history = <<>> /\ history_file.state = "missing"

====
